---- MODULE Spec2Model ----
(***************************************************************************)
(* Model of the cloudscraper-rs orchestrator: CloudScraper::request and    *)
(* the components it drives (client pool, challenge pipeline, submission   *)
(* executor, state manager, metrics, events, adaptive bundle).             *)
(*                                                                         *)
(* Every logical request is a task.  A task's position (pc) is the await   *)
(* point it is suspended on; everything the code does between two awaits   *)
(* is one action.  Durations are counted in abstract ticks.                *)
(***************************************************************************)
EXTENDS Integers, Sequences, FiniteSets, TLC

\* ------------------------------------------------------------------ bounds
\* Largest value handed to with_max_challenge_attempts.
MaxCfgAttempts == 2
\* Longest sleep (adaptive delay, submission wait, mitigation wait) in ticks.
MaxWait == 1

\* Concurrent logical requests sharing one scraper.
Tasks == {"t1", "t2"}
NoTask == "free"

\* Proxy endpoints that can be configured; NoProxy is the None key.
NoProxy == "direct"
ProxyList == <<"p1", "p2">>
ProxyKeys == {NoProxy} \cup {ProxyList[i] : i \in 1..Len(ProxyList)}

Max(a, b) == IF a >= b THEN a ELSE b
Min(a, b) == IF a <= b THEN a ELSE b

\* ------------------------------------------------------------ configuration
\* ProxyConfig::default().failure_threshold
DefaultFailureThreshold == 3

\* Faulty variant: the builder stores the requested count unclamped.
WithMaxChallengeAttemptsUnclamped(attempts) == attempts

\* CloudScraperBuilder::with_max_challenge_attempts
WithMaxChallengeAttempts(attempts) == Max(attempts, 1)

\* The builder settings the model explores: the requested attempt count, whether
\* a captcha provider is wired and whether a proxy list is configured.  The
\* feature toggles keep their defaults (every adaptive component enabled).
Configs ==
    { [ requested |-> a,
        max_challenge_attempts |-> WithMaxChallengeAttempts(a),
        captcha_provider |-> c,
        proxies |-> p ] :
        a \in 0..MaxCfgAttempts, c \in BOOLEAN, p \in {<<>>, ProxyList} }

\* --------------------------------------------------------------- responses
Statuses == {200, 403, 429, 500, 503}

\* What the body of a response matches.  "v2_captcha" is a page the detector
\* scores as JavaScriptV2 whose body carries the captcha orchestration script
\* (CAPTCHA_CHALLENGE_RE) instead of the jsch one; "managed_captcha" carries
\* the same script among the indicators of the managed challenge.
Signatures ==
    { "none", "iuam_v1", "iuam_v2", "v2_captcha", "managed_v3", "managed_captcha",
      "turnstile", "1015", "1020", "1010" }

Responses == [ cf : BOOLEAN, status : Statuses, sig : Signatures ]

NoResponse == [ cf |-> FALSE, status |-> 0, sig |-> "none" ]

\* ChallengeDetector::is_cloudflare_challenge
IsCloudflareChallenge(r) == r.cf /\ r.status \in {403, 429, 503}

\* KNOWN_PATTERNS: the challenge type of the pattern the body matches.
PatternType(sig) ==
    CASE sig = "iuam_v1"    -> "JavaScriptV1"
      [] sig = "iuam_v2"    -> "JavaScriptV2"
      [] sig = "v2_captcha" -> "JavaScriptV2"
      [] sig = "managed_v3" -> "ManagedV3"
      [] sig = "managed_captcha" -> "ManagedV3"
      [] sig = "turnstile"  -> "Turnstile"
      [] sig = "1015"       -> "RateLimit"
      [] sig = "1020"       -> "AccessDenied"
      [] sig = "1010"       -> "BotManagement"
      [] OTHER              -> "None"

\* ChallengeDetector::detect: the challenge type detected, "None" when the
\* response is not a candidate or no pattern matches.
Detect(r) == IF IsCloudflareChallenge(r) THEN PatternType(r.sig) ELSE "None"

\* JavascriptV1Solver::is_iuam_challenge
IsIuamChallenge(r) == r.cf /\ r.status \in {429, 503} /\ r.sig = "iuam_v1"

\* ManagedV3Solver::is_challenge: the statuses of the detector's gate.
IsManagedChallenge(r) ==
    r.cf /\ r.status \in {403, 429, 503} /\ r.sig \in {"managed_v3", "managed_captcha"}

\* TurnstileSolver::is_turnstile_challenge: the statuses of the detector's gate.
IsTurnstileChallenge(r) == r.cf /\ r.status \in {403, 429, 503} /\ r.sig = "turnstile"

\* JavascriptV2Solver::is_captcha_challenge
IsCaptchaChallenge(r) == r.cf /\ r.status = 403 /\ r.sig = "v2_captcha"

\* JavascriptV2Solver::is_js_challenge
IsJsChallenge(r) == r.cf /\ r.status \in {403, 429, 503} /\ r.sig = "iuam_v2"

\* RateLimitHandler::is_rate_limited
IsRateLimited(r) == r.cf /\ r.status = 429 /\ r.sig = "1015"

\* AccessDeniedHandler::is_access_denied
IsAccessDenied(r) == r.cf /\ r.status = 403 /\ r.sig = "1020"

\* BotManagementHandler::is_bot_management
IsBotManagement(r) == r.cf /\ r.status = 403 /\ r.sig = "1010"

\* MitigationPlan
NoPlan == [ should_retry |-> FALSE, wait |-> 0, new_proxy |-> NoProxy, reason |-> "none" ]

\* MitigationPlan::retry_after
RetryAfter(wait, reason) ==
    [ should_retry |-> TRUE, wait |-> wait, new_proxy |-> NoProxy, reason |-> reason ]

\* ------------------------------------------------------- challenge detector
\* Confidence 1.0 of evaluate_pattern.  Confidences are kept exact, in units of
\* 1/12000: every base confidence, every matches/total fraction of a pattern
\* and every success rate over at most six attempts is a whole number of them.
One == 12000

\* Pattern ids are tuples: <<name>> for the catalog, <<"adaptive", domain, n>>
\* for format!("adaptive_{}_{}", domain, raw_patterns.len()).
KnownPatterns ==
    << [ id |-> <<"cf_iuam_v1">>, challenge_type |-> "JavaScriptV1",
         base_confidence |-> (95 * One) \div 100, patterns |-> 4, adaptive |-> FALSE ],
       [ id |-> <<"cf_iuam_v2">>, challenge_type |-> "JavaScriptV2",
         base_confidence |-> (90 * One) \div 100, patterns |-> 3, adaptive |-> FALSE ],
       [ id |-> <<"cf_managed_v3">>, challenge_type |-> "ManagedV3",
         base_confidence |-> (92 * One) \div 100, patterns |-> 4, adaptive |-> FALSE ],
       [ id |-> <<"cf_turnstile">>, challenge_type |-> "Turnstile",
         base_confidence |-> (98 * One) \div 100, patterns |-> 4, adaptive |-> FALSE ],
       [ id |-> <<"cf_rate_limit">>, challenge_type |-> "RateLimit",
         base_confidence |-> (99 * One) \div 100, patterns |-> 3, adaptive |-> FALSE ],
       [ id |-> <<"cf_access_denied">>, challenge_type |-> "AccessDenied",
         base_confidence |-> (99 * One) \div 100, patterns |-> 3, adaptive |-> FALSE ],
       [ id |-> <<"cf_bot_management">>, challenge_type |-> "BotManagement",
         base_confidence |-> (95 * One) \div 100, patterns |-> 3, adaptive |-> FALSE ] >>

KnownIds == { KnownPatterns[i].id : i \in 1..Len(KnownPatterns) }

\* The catalog pattern of an id.
KnownPattern(id) ==
    KnownPatterns[CHOOSE j \in 1..Len(KnownPatterns) : KnownPatterns[j].id = id]

\* Number of regexes of a catalog pattern.
KnownTotal(id) == KnownPattern(id).patterns

\* KNOWN_PATTERNS: the id of the pattern the body of a response matches.
PatternId(sig) ==
    CASE sig = "iuam_v1"    -> <<"cf_iuam_v1">>
      [] sig = "iuam_v2"    -> <<"cf_iuam_v2">>
      [] sig = "v2_captcha" -> <<"cf_iuam_v2">>
      [] sig = "managed_v3" -> <<"cf_managed_v3">>
      [] sig = "managed_captcha" -> <<"cf_managed_v3">>
      [] sig = "turnstile"  -> <<"cf_turnstile">>
      [] sig = "1015"       -> <<"cf_rate_limit">>
      [] sig = "1020"       -> <<"cf_access_denied">>
      [] sig = "1010"       -> <<"cf_bot_management">>
      [] OTHER              -> <<>>

\* The body of a response by what it matches: every regex of its pattern,
\* except that the captcha page of the v2 platform matches two cf_iuam_v2
\* regexes (options and form) and the orchestration regex of cf_managed_v3.
SigBody(sig) ==
    [ known |-> [ id \in KnownIds |->
                    IF sig = "v2_captcha"
                    THEN (IF id = <<"cf_iuam_v2">> THEN 2
                          ELSE IF id = <<"cf_managed_v3">> THEN 1 ELSE 0)
                    ELSE IF id = PatternId(sig) THEN KnownTotal(id) ELSE 0 ],
      raw |-> {} ]

\* Header values and host names are byte strings.
Cloudflare == << 99, 108, 111, 117, 100, 102, 108, 97, 114, 101 >>

\* HeaderValue::to_str: Some only when every byte is visible ASCII or a tab.
ToStrOk(bytes) == \A i \in 1..Len(bytes) : bytes[i] = 9 \/ (bytes[i] >= 32 /\ bytes[i] < 127)

\* str::to_ascii_lowercase
ToAsciiLowercase(bytes) ==
    [ i \in 1..Len(bytes) |-> IF bytes[i] >= 65 /\ bytes[i] <= 90 THEN bytes[i] + 32 ELSE bytes[i] ]

\* str::starts_with
StartsWith(bytes, prefix) ==
    /\ Len(bytes) >= Len(prefix)
    /\ \A i \in 1..Len(prefix) : bytes[i] = prefix[i]

\* is_cloudflare_response: the Server header, when present and readable as a
\* string, starts with "cloudflare" once lowercased.
IsCloudflareResponse(server) ==
    /\ server.present
    /\ ToStrOk(server.bytes)
    /\ StartsWith(ToAsciiLowercase(server.bytes), Cloudflare)

\* The gate without its status test.
DetectorIsCloudflareChallengeAnyStatus(r) == IsCloudflareResponse(r.server)

\* ChallengeDetector::is_cloudflare_challenge on a response with its headers.
DetectorIsCloudflareChallenge(r) ==
    IsCloudflareResponse(r.server) /\ r.status \in {403, 429, 503}


\* PatternStats of an id never learned from.  stats.get(id) is None exactly
\* when attempts = 0: learn_from_outcome records in the entry it inserts.
NoStats == [ attempts |-> 0, successes |-> 0 ]

\* PatternStats::success_rate, in units of 1/12000.
SuccessRate(st) == IF st.attempts = 0 THEN 0 ELSE (st.successes * One) \div st.attempts

\* learn_from_outcome counting every outcome as a success.
LearnFromOutcomeAsSuccess(stats, id, success) ==
    [ stats EXCEPT ![id] = [ attempts |-> @.attempts + 1, successes |-> @.successes + 1 ] ]

\* ChallengeDetector::learn_from_outcome + PatternStats::record
LearnFromOutcome(stats, id, success) ==
    [ stats EXCEPT ![id] = [ attempts |-> @.attempts + 1,
                             successes |-> @.successes + (IF success THEN 1 ELSE 0) ] ]

\* ChallengePattern::new(..., 0.8, raw_patterns).into_adaptive() of
\* add_adaptive_pattern, for the first n regexes of the caller's list.
AdaptivePattern(domain, n) ==
    [ id |-> <<"adaptive", domain, n>>, challenge_type |-> "Unknown",
      base_confidence |-> (80 * One) \div 100, patterns |-> n, adaptive |-> TRUE ]

\* evaluate_pattern: how many regexes of the pattern match the body.
MatchCount(pattern, body) ==
    IF pattern.adaptive
    THEN Cardinality({ k \in 1..pattern.patterns : k \in body.raw })
    ELSE body.known[pattern.id]

NoConfidence == -1

\* evaluate_pattern with the threshold one tenth lower.
EvaluatePatternLowThreshold(pattern, body, stats) ==
    LET matches == MatchCount(pattern, body)
        scored == (matches * pattern.base_confidence) \div pattern.patterns
                    + SuccessRate(stats[pattern.id]) \div 10
        confidence == Min(scored, One)
    IN  IF matches = 0 THEN NoConfidence
        ELSE IF confidence < (4 * One) \div 10 THEN NoConfidence
        ELSE confidence

\* evaluate_pattern: None (NoConfidence) when no regex matches or the
\* confidence, (matches / total) * base + success_rate * 0.1 capped at 1.0,
\* is below 0.5.
EvaluatePattern(pattern, body, stats) ==
    LET matches == MatchCount(pattern, body)
        scored == (matches * pattern.base_confidence) \div pattern.patterns
                    + SuccessRate(stats[pattern.id]) \div 10
        confidence == Min(scored, One)
    IN  IF matches = 0 THEN NoConfidence
        ELSE IF confidence < One \div 2 THEN NoConfidence
        ELSE confidence

NoDetection ==
    [ found |-> FALSE, pattern_id |-> <<>>, challenge_type |-> "None",
      confidence |-> NoConfidence, is_adaptive |-> FALSE, url |-> 0 ]

RECURSIVE BestFrom(_, _, _, _, _, _)
\* detect, one loop over a pattern list from index i on: a pattern replaces
\* the best so far only when its confidence is strictly higher.
BestFrom(patterns, i, body, url, stats, best) ==
    IF i > Len(patterns) THEN best
    ELSE LET confidence == EvaluatePattern(patterns[i], body, stats)
             next == IF confidence # NoConfidence
                        /\ (~best.found \/ confidence > best.confidence)
                     THEN [ found |-> TRUE, pattern_id |-> patterns[i].id,
                            challenge_type |-> patterns[i].challenge_type,
                            confidence |-> confidence,
                            is_adaptive |-> patterns[i].adaptive,
                            url |-> url ]
                     ELSE best
         IN  BestFrom(patterns, i + 1, body, url, stats, next)

\* response_domain: the host of the URL, lowercased.
ResponseDomain(r) == ToAsciiLowercase(r.host)

\* ChallengeDetector::detect up to `result`: the gate, the catalog, then the
\* adaptive patterns stored under the response's domain.
DetectorDetect(adaptivePatterns, stats, r) ==
    IF ~DetectorIsCloudflareChallenge(r) THEN NoDetection
    ELSE LET known == BestFrom(KnownPatterns, 1, r.body, r.url, stats, NoDetection)
         IN  BestFrom(adaptivePatterns[ResponseDomain(r)], 1, r.body, r.url, stats, known)

\* -------------------------------------------------------------------- state
VARIABLES
    config,         \* CloudScraperConfig after the builder ran
    env,            \* the callers that issue a request and what servers answer
    innerLock,      \* holder of CloudScraper.inner (the coarse lock), or NoTask
    currentProxy,   \* CloudScraperInner.current_proxy
    proxyMgr,       \* CloudScraperInner.proxy_manager
    adaptive,       \* outcomes received by timing / anti-detection / performance / ML,
                    \* and the detector's pattern statistics
    clients,        \* ClientPool.clients: proxy key -> client id, 0 when absent
    built,          \* number of transport clients built per proxy key
    stateMgr,       \* StateManager entry of the host
    metricsTotal,   \* MetricsCollector global.total_requests
    pc,             \* per task: the await point it is suspended on
    attempt,        \* per task: request()'s attempt counter
    forced,         \* per task: request()'s forced_proxy
    proxy,          \* per task: proxy chosen by prepare_request
    client,         \* per task: transport client handed out by the pool
    sleepLeft,      \* per task: ticks left of the sleep it is suspended on
    resp,           \* per task: response of the current attempt
    result,         \* per task: pipeline result of the current attempt
    plan,           \* per task: mitigation plan of the last mitigated response
    subStatus,      \* per task: Ok(status) / error of the executed submission
    ret,            \* per task: what request() returned
    sends,          \* per task: network sends made for the call
    events,         \* per task: events dispatched during the current attempt
    rec,            \* per task: components that recorded the current attempt
    issued,         \* per task: state-manager record calls made
    since,          \* per task: ticks elapsed since the last response arrived
    asked,          \* per task: prepare_request asked the proxy pool
    before          \* per task: the host's streaks when the response arrived, the
                    \* pattern's statistics before the task updated them

\* State of the components that are also exercised on their own.
VARIABLES
    pxCfg,          \* ProxyManager.config: failure_threshold, ban_time, rotation_strategy
    pxNow,          \* Instant::now() in ticks
    pxEntries,      \* ProxyManager.proxies: failures and banned_until (NoBan for None)
    pxIndex,        \* ProxyManager.current_index
    pxLast,         \* the last ProxyManager call and what it returned
    pxImposed,      \* per proxy: expiry of the last ban report_failure imposed
    pxLifted,       \* per proxy: that ban was cleared by report_success or force-unban
    pxPanicked,     \* a ProxyManager call panicked
    dtAdaptive,     \* ChallengeDetector.adaptive_patterns: domain -> patterns
    dtStats,        \* ChallengeDetector.stats: pattern id -> PatternStats
    dtHistory,      \* ChallengeDetector.history: detections, oldest first
    dtResp,         \* the response callers hand to detect()
    dtLast,         \* the last ChallengeDetector call and what it returned
    fbTimed,        \* callers report to the state manager with timings
    fbRecorded,     \* outcomes reported so far
    fbErrors,       \* DomainState.recent_errors: its length
    fbConsecutive,  \* DomainState.timing.consecutive_failures (u8)
    fbDelays,       \* DomainState.timing.recent_delays: its length
    atConsecutive,  \* DomainTimingState.consecutive_failures of adaptive timing
    atDelays,       \* DomainTimingState.recent_delays: its length
    atGlobal,       \* DefaultAdaptiveTiming.global_history: its length
    mxLatencies     \* DomainAccumulator.latencies: its length

proxyVars ==
    << pxCfg, pxNow, pxEntries, pxIndex, pxLast, pxImposed, pxLifted, pxPanicked >>

detectorVars == << dtAdaptive, dtStats, dtHistory, dtResp, dtLast >>

feedbackVars ==
    << fbTimed, fbRecorded, fbErrors, fbConsecutive, fbDelays, atConsecutive, atDelays,
       atGlobal, mxLatencies >>

\* State of the adaptive modules and mitigation handlers exercised on their own.
VARIABLES
    mlWindow,       \* MLConfig.window_size
    mlModels,       \* MLOptimizer.domains: domain -> DomainModel
    mlRecorded,     \* record_attempt calls made so far
    adPool,         \* a proxy pool is handed to AccessDeniedHandler::plan
    adLast,         \* the last AccessDeniedHandler::plan call and what it returned
    fpLevel,        \* FingerprintGenerator.consistency
    fpCache,        \* FingerprintGenerator.cache: domain -> fingerprint, 0 when absent
    fpGlobal,       \* FingerprintGenerator.global, 0 for None
    fpIssued,       \* fingerprints drawn by random_fingerprint so far
    fpUsed,         \* per domain: fingerprint last returned by generate_for, 0 when none
    tlsInterval,    \* TLSConfig.rotation_interval
    tlsProfiles,    \* DefaultTLSManager.profiles
    tlsState,       \* DefaultTLSManager.per_domain: domain -> DomainTLSState
    tlsSeen,        \* per domain: profile of the last current_profile call and the
                    \* rotate_profile calls made since
    evLast,         \* the last call on the fingerprint / TLS / bot-management side
    cdCfg,          \* AntiDetectionConfig: burst and cooldown settings
    cdNow,          \* Instant::now() in ticks
    cdState,        \* DomainAntiDetection of the host
    cdReqs,         \* per request: where it is between prepare_request and send
    cdLast,         \* the last record_response call
    tmProfile,      \* DefaultAdaptiveTiming.active_profile
    tmState,        \* DomainTimingState of the host
    tmOutcomes,     \* outcomes recorded so far
    tmLast          \* the last calculate_delay call and the delay it returned

mlVars == << mlWindow, mlModels, mlRecorded >>

accessVars == << adPool, adLast >>

evasionVars ==
    << fpLevel, fpCache, fpGlobal, fpIssued, fpUsed, tlsInterval, tlsProfiles, tlsState,
       tlsSeen, evLast >>

cooldownVars == << cdCfg, cdNow, cdState, cdReqs, cdLast >>

timingVars == << tmProfile, tmState, tmOutcomes, tmLast >>

\* State of the submission executor and of the header preparation exercised on
\* their own.
VARIABLES
    exIn,           \* blueprint and payload the solver holds before to_submission
    exSub,          \* the ChallengeSubmission built from them
    exOrig,         \* the OriginalRequest handed to the executor
    exPc,           \* where solve and execute_challenge_submission stand
    exSleep,        \* ticks left of the executor's sleep
    exSlept,        \* ticks the executor has slept
    exCalls,        \* transport calls the executor made, in order
    exFirst,        \* response to the form POST
    exRet,          \* what the executor (or the solver) returned
    hdSpoofing,     \* a fingerprint generator is active (enable_spoofing)
    hdAnti,         \* anti-detection is active (enable_anti_detection)
    hdFingerprint,  \* fingerprint generate_for returns for the domain
    hdLast          \* the last prepare_request call: its draws, the fingerprint
                    \* of the domain and the headers it returned

\* State of the mitigation handlers exercised on their own.
VARIABLES
    mtEffects,      \* calls the handlers made on the components handed to them
    mtLast          \* the last plan() call: handler, response, what it returned

executorVars ==
    << exIn, exSub, exOrig, exPc, exSleep, exSlept, exCalls, exFirst, exRet >>

headerVars == << hdSpoofing, hdAnti, hdFingerprint, hdLast >>

mitigationVars == << mtEffects, mtLast >>

moduleVars ==
    << mlVars, accessVars, evasionVars, cooldownVars, timingVars, executorVars,
       headerVars, mitigationVars >>

componentVars == << proxyVars, detectorVars, feedbackVars, moduleVars >>

vars ==
    << componentVars, config, env, innerLock, currentProxy, proxyMgr, adaptive, clients, built,
       stateMgr, metricsTotal, pc, attempt, forced, proxy, client, sleepLeft,
       resp, result, plan, subStatus, ret, sends, events, rec, issued, since,
       asked, before >>

\* Variables of the shared components that a step of pure task-local
\* bookkeeping leaves alone.
sharedVars ==
    << componentVars, config, env, innerLock, currentProxy, proxyMgr, adaptive, clients, built,
       stateMgr, metricsTotal >>

\* Result<ChallengeHttpResponse, ChallengeExecutionError> of the executor.
NoSubmission == [ err |-> "none", status |-> 0 ]
SubOk(st) == [ err |-> "none", status |-> st ]
SubErr(e) == [ err |-> e, status |-> 0 ]

\* A send made through no client yet.
NoTransport == "none"

\* CloudScraper.challenge_client: the ReqwestChallengeHttpClient built once in
\* with_config, with a cookie store of its own and no proxy.
ChallengeClient == "challenge_client"

\* The client the pool keeps for a proxy key (NoProxy for the direct one): it
\* is built once per key, with that proxy and a cookie store of its own.
PoolClient(key) == key

\* Sends of a call by kind, the client the last send of each kind went
\* through, and the responses received for them (head and body).
NoSends ==
    [ main |-> 0, form |-> 0, replay |-> 0,
      main_via |-> NoTransport, form_via |-> NoTransport, replay_via |-> NoTransport,
      responses |-> 0 ]

TotalSends(t) == sends[t].main + sends[t].form + sends[t].replay

\* ProxyManager::new + load
NewProxyManager(proxies) ==
    [ proxies |-> proxies,
      current_index |-> 0,
      failures |-> [ i \in 1..Len(proxies) |-> 0 ],
      banned |-> <<>> ]

\* CloudScraper::with_config for one of the configurations cfgs, in an
\* environment where the tasks of live call request() and servers answer with
\* the responses of served.
InitWith(cfgs, live, served) ==
    /\ config \in cfgs
    /\ env = [ live |-> live, served |-> served ]
    /\ innerLock = NoTask
    /\ currentProxy = NoProxy
    /\ proxyMgr = NewProxyManager(config.proxies)
    /\ adaptive = [ timing |-> 0, anti |-> 0, perf |-> 0, ml |-> 0, learned |-> 0,
                    stats |-> [ id \in KnownIds |-> NoStats ] ]
    /\ clients = [ k \in ProxyKeys |-> 0 ]
    /\ built = [ k \in ProxyKeys |-> 0 ]
    /\ stateMgr = [ present |-> FALSE, success_streak |-> 0, failure_streak |-> 0,
                    applied |-> 0 ]
    /\ metricsTotal = 0
    /\ pc = [ t \in Tasks |-> "idle" ]
    /\ attempt = [ t \in Tasks |-> 0 ]
    /\ forced = [ t \in Tasks |-> NoProxy ]
    /\ proxy = [ t \in Tasks |-> NoProxy ]
    /\ client = [ t \in Tasks |-> 0 ]
    /\ sleepLeft = [ t \in Tasks |-> 0 ]
    /\ resp = [ t \in Tasks |-> NoResponse ]
    /\ result = [ t \in Tasks |-> "none" ]
    /\ plan = [ t \in Tasks |-> NoPlan ]
    /\ subStatus = [ t \in Tasks |-> NoSubmission ]
    /\ ret = [ t \in Tasks |-> [ kind |-> "none", plan |-> NoPlan ] ]
    /\ sends = [ t \in Tasks |-> NoSends ]
    /\ events = [ t \in Tasks |-> <<>> ]
    /\ rec = [ t \in Tasks |-> {} ]
    /\ issued = [ t \in Tasks |-> 0 ]
    /\ since = [ t \in Tasks |-> 0 ]
    /\ asked = [ t \in Tasks |-> FALSE ]
    /\ before = [ t \in Tasks |-> [ success_streak |-> 0, failure_streak |-> 0,
                                     pattern_stats |-> NoStats, pattern_updates |-> 0 ] ]

\* ------------------------------------------------------------ proxy manager
RECURSIVE SeqWithout(_, _)
\* Vec::retain with "!= x": the sequence without the element x.
SeqWithout(s, x) ==
    IF s = <<>> THEN <<>>
    ELSE IF Head(s) = x THEN SeqWithout(Tail(s), x)
    ELSE <<Head(s)>> \o SeqWithout(Tail(s), x)

RECURSIVE IndexOf(_, _, _)
\* Position of endpoint e in proxies at or after index i, 0 when absent.
IndexOf(proxies, e, i) ==
    IF i > Len(proxies) THEN 0
    ELSE IF proxies[i] = e THEN i
    ELSE IndexOf(proxies, e, i + 1)

RECURSIVE AvailableFrom(_, _, _)
\* The indices from i on that are not banned, in index order.
AvailableFrom(pm, stillBanned, i) ==
    IF i > Len(pm.proxies) THEN <<>>
    ELSE IF i \in stillBanned THEN AvailableFrom(pm, stillBanned, i + 1)
    ELSE <<i>> \o AvailableFrom(pm, stillBanned, i + 1)

SeqRange(s) == { s[i] : i \in 1..Len(s) }

\* ProxyManager::next_proxy under the default Sequential strategy.  pm.banned
\* lists the banned indices by ban expiry, earliest first; expired is the set
\* of them whose ban is over at the time of the call.  The result is the new
\* manager and the endpoint picked (NoProxy for None).
NextProxy(pm, expired) ==
    IF Len(pm.proxies) = 0 THEN [ pm |-> pm, proxy |-> NoProxy ]
    ELSE
        LET kept == SelectSeq(pm.banned, LAMBDA i : i \notin expired)
            avail == AvailableFrom(pm, SeqRange(kept), 1)
        IN  IF avail = <<>>
            THEN [ pm |-> [ pm EXCEPT !.banned = Tail(kept) ],
                   proxy |-> pm.proxies[Head(kept)] ]
            ELSE [ pm |-> [ pm EXCEPT !.banned = kept,
                                      !.current_index = (pm.current_index + 1) % Len(avail) ],
                   proxy |-> pm.proxies[avail[(pm.current_index % Len(avail)) + 1]] ]

\* ProxyManager::report_failure
ReportFailure(pm, endpoint) ==
    LET i == IndexOf(pm.proxies, endpoint, 1)
    IN  IF i = 0 THEN pm
        ELSE LET f == pm.failures[i] + 1
             IN  [ pm EXCEPT !.failures[i] = f,
                             !.banned = IF f % DefaultFailureThreshold = 0
                                        THEN Append(SeqWithout(pm.banned, i), i)
                                        ELSE pm.banned ]

\* ------------------------------------------------------------ state manager
\* Faulty variant: an update for a host without an entry creates the entry but
\* is not applied to it.
StateManagerUpdateLosingFirst(st, success) ==
    IF ~st.present
    THEN [ st EXCEPT !.present = TRUE ]
    ELSE [ present |-> TRUE,
           success_streak |-> IF success THEN st.success_streak + 1 ELSE 0,
           failure_streak |-> IF success THEN 0 ELSE st.failure_streak + 1,
           applied |-> st.applied + 1 ]

\* Faulty variant: the streak of the other kind is kept.
StateManagerUpdateKeepingOpposite(st, success) ==
    [ present |-> TRUE,
      success_streak |-> IF success THEN st.success_streak + 1 ELSE st.success_streak,
      failure_streak |-> IF success THEN st.failure_streak ELSE st.failure_streak + 1,
      applied |-> st.applied + 1 ]

\* DomainState::record_outcome on the streak counters (reached through
\* StateManager::update, which creates the entry when it is missing and applies
\* the closure under the write lock).
StateManagerUpdate(st, success) ==
    [ present |-> TRUE,
      success_streak |-> IF success THEN st.success_streak + 1 ELSE 0,
      failure_streak |-> IF success THEN 0 ELSE st.failure_streak + 1,
      applied |-> st.applied + 1 ]

\* ------------------------------------------------------------------- events
\* MetricsHandler::handle: what one dispatched event adds to total_requests
\* (record_response on PostResponse, record_error on Error).
MetricsHandler(ev) == IF ev \in {"PostResponse", "Error"} THEN 1 ELSE 0

\* ------------------------------------------------------------- client pool
\* Faulty variant: the stored client is not looked up, every call builds one.
ClientPoolClientAlwaysBuilds(pool, key) ==
    [ clients |-> [ pool.clients EXCEPT ![key] = pool.built[key] + 1 ],
      built |-> [ pool.built EXCEPT ![key] = @ + 1 ],
      client |-> pool.built[key] + 1 ]

\* ClientPool::client between taking the pool mutex and returning: the client
\* stored under the key is handed out, one is built and stored when none is.
\* pool is [clients, built]; the result adds the client handed out.
ClientPoolClient(pool, key) ==
    IF pool.clients[key] # 0
    THEN [ clients |-> pool.clients, built |-> pool.built, client |-> pool.clients[key] ]
    ELSE [ clients |-> [ pool.clients EXCEPT ![key] = pool.built[key] + 1 ],
           built |-> [ pool.built EXCEPT ![key] = @ + 1 ],
           client |-> pool.built[key] + 1 ]

\* ------------------------------------------------------------ request loop
\* CloudScraper::request entry: forced_proxy = None, attempt = 0, then the
\* first loop iteration starts (attempt += 1) and suspends on the coarse lock
\* inside prepare_request.
Start(t) ==
    /\ pc[t] = "idle"
    /\ t \in env.live
    /\ pc' = [ pc EXCEPT ![t] = "prepare" ]
    /\ attempt' = [ attempt EXCEPT ![t] = 1 ]
    /\ forced' = [ forced EXCEPT ![t] = NoProxy ]
    /\ UNCHANGED << sharedVars, proxy, client, sleepLeft, resp, result, plan,
                    subStatus, ret, sends, events, rec, issued, since, asked, before >>

\* Faulty variant: the forced proxy is ignored and the manager is always asked.
PrepareProxyIgnoringForced(forcedProxy, pm, expired) ==
    LET next == NextProxy(pm, expired)
    IN  [ pm |-> next.pm, proxy |-> next.proxy, asked |-> Len(pm.proxies) > 0 ]

\* CloudScraper::prepare_request, proxy selection: the forced proxy when there
\* is one, else the proxy manager's next proxy.  The result is the new manager,
\* the proxy of this iteration and whether the manager was asked.
PrepareProxy(forcedProxy, pm, expired) ==
    IF forcedProxy # NoProxy
    THEN [ pm |-> pm, proxy |-> forcedProxy, asked |-> FALSE ]
    ELSE LET next == NextProxy(pm, expired)
         IN  [ pm |-> next.pm, proxy |-> next.proxy, asked |-> Len(pm.proxies) > 0 ]

\* CloudScraper::prepare_request critical section, then the PreRequest event;
\* the task suspends on the client pool mutex.
Prepare(t) ==
    /\ pc[t] = "prepare"
    /\ innerLock = NoTask
    /\ \E expired \in SUBSET SeqRange(proxyMgr.banned), d \in 1..MaxWait :
        LET chosen == PrepareProxy(forced[t], proxyMgr, expired)
        IN  /\ proxyMgr' = chosen.pm
            /\ currentProxy' = chosen.proxy
            /\ proxy' = [ proxy EXCEPT ![t] = chosen.proxy ]
            /\ asked' = [ asked EXCEPT ![t] = chosen.asked ]
            /\ sleepLeft' = [ sleepLeft EXCEPT ![t] = d ]
    /\ forced' = [ forced EXCEPT ![t] = NoProxy ]
    /\ events' = [ events EXCEPT ![t] = Append(@, "PreRequest") ]
    /\ pc' = [ pc EXCEPT ![t] = "client" ]
    /\ UNCHANGED << componentVars, config, env, innerLock, adaptive, clients, built, stateMgr,
                    metricsTotal, attempt, client, resp, result, plan, subStatus,
                    ret, sends, rec, issued, since, before >>

\* ClientPool::client; the task then sleeps the effective delay (always
\* positive with adaptive timing enabled).  Building a client can fail, which
\* ends the request with an Http error.
AcquireClient(t) ==
    /\ pc[t] = "client"
    /\ \/ LET got == ClientPoolClient([ clients |-> clients, built |-> built ], proxy[t])
          IN  /\ clients' = got.clients
              /\ built' = got.built
              /\ client' = [ client EXCEPT ![t] = got.client ]
              /\ pc' = [ pc EXCEPT ![t] = "delay_sleep" ]
              /\ ret' = ret
       \/ /\ clients[proxy[t]] = 0
          /\ pc' = [ pc EXCEPT ![t] = "done" ]
          /\ ret' = [ ret EXCEPT ![t] = [ kind |-> "Http", plan |-> NoPlan ] ]
          /\ UNCHANGED << clients, built, client >>
    /\ UNCHANGED << componentVars, config, env, innerLock, currentProxy, proxyMgr, adaptive, stateMgr,
                    metricsTotal, attempt, forced, proxy, sleepLeft, resp, result,
                    plan, subStatus, sends, events, rec, issued, since, asked, before >>

\* The delay sleep is over: the request is sent (builder.send()).
DelayElapsed(t) ==
    /\ pc[t] = "delay_sleep"
    /\ sleepLeft[t] = 0
    /\ sends' = [ sends EXCEPT ![t].main = @ + 1, ![t].main_via = PoolClient(proxy[t]) ]
    /\ pc' = [ pc EXCEPT ![t] = "send" ]
    /\ UNCHANGED << sharedVars, attempt, forced, proxy, client, sleepLeft, resp,
                    result, plan, subStatus, ret, events, rec, issued, since, asked, before >>

\* builder.send().await completes: a transport error ends the request, else
\* the response head is in and the body is read.
Receive(t) ==
    /\ pc[t] = "send"
    /\ \/ /\ \E r \in env.served : resp' = [ resp EXCEPT ![t] = r ]
          /\ since' = [ since EXCEPT ![t] = 0 ]
          /\ before' = [ before EXCEPT ![t].success_streak = stateMgr.success_streak,
                                       ![t].failure_streak = stateMgr.failure_streak ]
          /\ pc' = [ pc EXCEPT ![t] = "body_read" ]
          /\ ret' = ret
       \/ /\ pc' = [ pc EXCEPT ![t] = "done" ]
          /\ ret' = [ ret EXCEPT ![t] = [ kind |-> "Http", plan |-> NoPlan ] ]
          /\ UNCHANGED << resp, since, before >>
    /\ UNCHANGED << sharedVars, attempt, forced, proxy, client, sleepLeft, result,
                    plan, subStatus, sends, events, rec, issued, asked >>

\* resp.bytes().await completes, then the PostResponse event; the task
\* suspends on the coarse lock for the pipeline evaluation.
BodyRead(t) ==
    /\ pc[t] = "body_read"
    /\ \/ /\ events' = [ events EXCEPT ![t] = Append(@, "PostResponse") ]
          /\ metricsTotal' = metricsTotal + MetricsHandler("PostResponse")
          /\ sends' = [ sends EXCEPT ![t].responses = @ + 1 ]
          /\ pc' = [ pc EXCEPT ![t] = "eval_lock" ]
          /\ ret' = ret
       \/ /\ pc' = [ pc EXCEPT ![t] = "done" ]
          /\ ret' = [ ret EXCEPT ![t] = [ kind |-> "Http", plan |-> NoPlan ] ]
          /\ UNCHANGED << events, metricsTotal, sends >>
    /\ UNCHANGED << componentVars, config, env, innerLock, currentProxy, proxyMgr, adaptive, clients,
                    built, stateMgr, attempt, forced, proxy, client, sleepLeft,
                    resp, result, plan, subStatus, rec, issued, since, asked, before >>

\* ----------------------------------------------------- pipeline evaluation
\* The pipeline produced a result without waiting: the lock is released at the
\* end of the block and the match on the result follows.
EvalDone(t, res, newPlan, newState, calls, newPm) ==
    /\ result' = [ result EXCEPT ![t] = res ]
    /\ plan' = [ plan EXCEPT ![t] = newPlan ]
    /\ stateMgr' = newState
    /\ issued' = [ issued EXCEPT ![t] = @ + calls ]
    /\ proxyMgr' = newPm
    /\ innerLock' = innerLock
    /\ pc' = [ pc EXCEPT ![t] = "act" ]

\* The pipeline awaits the captcha provider inside evaluate(): the guard taken
\* by request() is still alive while the task is suspended.
EvalSuspend(t) ==
    /\ innerLock' = t
    /\ pc' = [ pc EXCEPT ![t] = "captcha_solve" ]
    /\ UNCHANGED << result, plan, stateMgr, issued, proxyMgr >>

\* AccessDeniedHandler::plan once the signature matched.
AccessDeniedPlan(pm, hasPool, current, wait, expired) ==
    IF hasPool
    THEN LET reported == IF current # NoProxy THEN ReportFailure(pm, current) ELSE pm
             next == NextProxy(reported, expired \cap SeqRange(reported.banned))
         IN  IF next.proxy # NoProxy
             THEN [ pm |-> next.pm,
                    plan |-> [ RetryAfter(wait, "access_denied") EXCEPT
                                 !.new_proxy = next.proxy ] ]
             ELSE [ pm |-> next.pm,
                    plan |-> [ RetryAfter(wait, "access_denied") EXCEPT
                                 !.should_retry = FALSE,
                                 !.reason = "access_denied_no_proxy" ] ]
    ELSE [ pm |-> pm,
           plan |-> [ RetryAfter(wait, "access_denied") EXCEPT
                        !.should_retry = FALSE,
                        !.reason = "access_denied_no_proxy" ] ]

\* request(): self.inner.lock().await, then ChallengePipeline::evaluate.
Evaluate(t) ==
    /\ pc[t] = "eval_lock"
    /\ innerLock = NoTask
    /\ LET r == resp[t]
           kind == Detect(r)
           keep == plan[t]
       IN
       \/ /\ kind = "None"
          /\ EvalDone(t, "NoChallenge", keep, stateMgr, 0, proxyMgr)
       \/ /\ kind = "JavaScriptV1"
          /\ IF IsIuamChallenge(r)
             THEN \E res \in {"Submission", "Failed"} :
                     EvalDone(t, res, keep, stateMgr, 0, proxyMgr)
             ELSE EvalDone(t, "Failed", keep, stateMgr, 0, proxyMgr)
       \/ /\ kind = "ManagedV3"
          /\ IsManagedChallenge(r)
          /\ \E res \in {"Submission", "Failed"} :
                EvalDone(t, res, keep, stateMgr, 0, proxyMgr)
       \/ /\ kind = "JavaScriptV2"
          /\ IF IsCaptchaChallenge(r)
             THEN IF ~config.captcha_provider
                  THEN EvalDone(t, "Unsupported", keep, stateMgr, 0, proxyMgr)
                  ELSE \/ EvalDone(t, "Failed", keep, stateMgr, 0, proxyMgr)
                       \/ EvalSuspend(t)
             ELSE IF IsJsChallenge(r)
                  THEN \E res \in {"Submission", "Failed"} :
                          EvalDone(t, res, keep, stateMgr, 0, proxyMgr)
                  ELSE EvalDone(t, "Failed", keep, stateMgr, 0, proxyMgr)
       \/ /\ kind = "Turnstile"
          /\ IsTurnstileChallenge(r)
          /\ IF ~config.captcha_provider
             THEN EvalDone(t, "Unsupported", keep, stateMgr, 0, proxyMgr)
             ELSE \/ EvalDone(t, "Failed", keep, stateMgr, 0, proxyMgr)
                  \/ EvalSuspend(t)
       \/ /\ kind = "RateLimit"
          /\ IF IsRateLimited(r)
             THEN \E w \in 0..MaxWait :
                     EvalDone(t, "Mitigation", RetryAfter(w, "rate_limit"),
                              StateManagerUpdate(stateMgr, FALSE), 1, proxyMgr)
             ELSE EvalDone(t, "Failed", keep, stateMgr, 0, proxyMgr)
       \/ /\ kind = "AccessDenied"
          /\ IF IsAccessDenied(r)
             THEN \E w \in 1..MaxWait, expired \in SUBSET (1..Len(proxyMgr.proxies)) :
                     LET ad == AccessDeniedPlan(proxyMgr, Len(config.proxies) > 0,
                                                currentProxy, w, expired)
                     IN  EvalDone(t, "Mitigation", ad.plan, stateMgr, 0, ad.pm)
             ELSE EvalDone(t, "Failed", keep, stateMgr, 0, proxyMgr)
       \/ /\ kind = "BotManagement"
          /\ IF IsBotManagement(r)
             THEN \E w \in 1..MaxWait :
                     EvalDone(t, "Mitigation", RetryAfter(w, "bot_management"),
                              StateManagerUpdate(stateMgr, FALSE), 1, proxyMgr)
             ELSE EvalDone(t, "Failed", keep, stateMgr, 0, proxyMgr)
    /\ UNCHANGED << componentVars, config, env, currentProxy, adaptive, clients, built, metricsTotal,
                    attempt, forced, proxy, client, sleepLeft, resp, subStatus,
                    ret, sends, events, rec, since, asked, before >>

\* MutexGuard drop: the lock is free again when its holder lets go of it.
ReleaseGuard(lock, t) == IF lock = t THEN NoTask ELSE lock

\* provider.solve(&task).await completes inside evaluate(): the solver builds
\* the submission or fails, evaluate() returns and the guard is dropped.
CaptchaDone(t) ==
    /\ pc[t] = "captcha_solve"
    /\ \E res \in {"Submission", "Failed"} :
          result' = [ result EXCEPT ![t] = res ]
    /\ innerLock' = ReleaseGuard(innerLock, t)
    /\ pc' = [ pc EXCEPT ![t] = "act" ]
    /\ UNCHANGED << componentVars, config, env, currentProxy, proxyMgr, adaptive, clients, built,
                    stateMgr, metricsTotal, attempt, forced, proxy, client,
                    sleepLeft, resp, plan, subStatus, ret, sends, events, rec,
                    issued, since, asked, before >>

\* ---------------------------------------------------------------- feedback
\* CloudScraper::record_outcome up to its lock().await: the state manager
\* records success or the status_<code> failure and the metrics collector
\* records the response.
RecordOutcomeSync(t, success) ==
    /\ stateMgr' = StateManagerUpdate(stateMgr, success)
    /\ issued' = [ issued EXCEPT ![t] = @ + 1 ]
    /\ metricsTotal' = metricsTotal + 1
    /\ rec' = [ rec EXCEPT ![t] = @ \cup {"state", "metrics"} ]

\* request(): the match on the pipeline result, up to the next await.
Act(t) ==
    /\ pc[t] = "act"
    /\ \/ /\ result[t] \in {"NoChallenge", "Mitigation", "Unsupported", "Failed"}
          /\ RecordOutcomeSync(t, result[t] = "NoChallenge")
          /\ pc' = [ pc EXCEPT ![t] = "rec_lock" ]
          /\ UNCHANGED << sleepLeft, sends >>
       \/ /\ result[t] = "Submission"
          /\ \E w \in 0..MaxWait :
                IF w > 0
                THEN /\ sleepLeft' = [ sleepLeft EXCEPT ![t] = w ]
                     /\ pc' = [ pc EXCEPT ![t] = "sub_wait" ]
                     /\ sends' = sends
                ELSE /\ sends' = [ sends EXCEPT ![t].form = @ + 1,
                                                ![t].form_via = ChallengeClient ]
                     /\ pc' = [ pc EXCEPT ![t] = "send_form" ]
                     /\ sleepLeft' = sleepLeft
          /\ UNCHANGED << stateMgr, issued, metricsTotal, rec >>
    /\ UNCHANGED << componentVars, config, env, innerLock, currentProxy, proxyMgr, adaptive, clients,
                    built, attempt, forced, proxy, client, resp, result, plan,
                    subStatus, ret, events, since, asked, before >>

\* execute_challenge_submission: the submission wait is over, the form is
\* posted (client.send_form).
SubWaitElapsed(t) ==
    /\ pc[t] = "sub_wait"
    /\ sleepLeft[t] = 0
    /\ sends' = [ sends EXCEPT ![t].form = @ + 1, ![t].form_via = ChallengeClient ]
    /\ pc' = [ pc EXCEPT ![t] = "send_form" ]
    /\ UNCHANGED << sharedVars, attempt, forced, proxy, client, sleepLeft, resp,
                    result, plan, subStatus, ret, events, rec, issued, since, asked, before >>

\* Status codes the challenge endpoint answers the form POST with; 302 is the
\* redirect (is_redirect), 400 the rejected answer.
FormStatuses == {200, 302, 400, 500}
ReplayStatuses == {200, 500}

\* execute_challenge_submission after send_form returned: transport error,
\* InvalidAnswer on 400, the response itself when it is no redirect, else the
\* replay of the original request (client.send_with_body).
FormResponse(t) ==
    /\ pc[t] = "send_form"
    /\ \/ /\ subStatus' = [ subStatus EXCEPT ![t] = SubErr("ClientError") ]
          /\ pc' = [ pc EXCEPT ![t] = "sub_lock" ]
          /\ sends' = sends
       \/ \E st \in FormStatuses :
             IF st = 400
             THEN /\ subStatus' = [ subStatus EXCEPT ![t] = SubErr("InvalidAnswer") ]
                  /\ pc' = [ pc EXCEPT ![t] = "sub_lock" ]
                  /\ sends' = [ sends EXCEPT ![t].responses = @ + 1 ]
             ELSE IF st # 302
             THEN /\ subStatus' = [ subStatus EXCEPT ![t] = SubOk(st) ]
                  /\ pc' = [ pc EXCEPT ![t] = "sub_lock" ]
                  /\ sends' = [ sends EXCEPT ![t].responses = @ + 1 ]
             ELSE /\ sends' = [ sends EXCEPT ![t].replay = @ + 1,
                                                  ![t].replay_via = ChallengeClient,
                                                  ![t].responses = @ + 1 ]
                  /\ pc' = [ pc EXCEPT ![t] = "send_replay" ]
                  /\ subStatus' = subStatus
    /\ UNCHANGED << sharedVars, attempt, forced, proxy, client, sleepLeft, resp,
                    result, plan, ret, events, rec, issued, since, asked, before >>

\* execute_challenge_submission after send_with_body returned.
ReplayResponse(t) ==
    /\ pc[t] = "send_replay"
    /\ \/ /\ subStatus' = [ subStatus EXCEPT ![t] = SubErr("ClientError") ]
          /\ sends' = sends
       \/ /\ \E st \in ReplayStatuses : subStatus' = [ subStatus EXCEPT ![t] = SubOk(st) ]
          /\ sends' = [ sends EXCEPT ![t].responses = @ + 1 ]
    /\ pc' = [ pc EXCEPT ![t] = "sub_lock" ]
    /\ UNCHANGED << sharedVars, attempt, forced, proxy, client, sleepLeft, resp,
                    result, plan, ret, events, rec, issued, since, asked, before >>

SubmissionFailed(t) == subStatus[t].err # "none"

\* handle_submission after the executor returned: under the coarse lock the
\* pattern outcome is fed to the detector; an executor error is then returned
\* through `?`; otherwise the Challenge and PostResponse events are dispatched
\* and request() starts record_outcome for the executed response.
RecordPattern(t) ==
    /\ pc[t] = "sub_lock"
    /\ innerLock = NoTask
    /\ adaptive' = [ adaptive EXCEPT
                       !.learned = @ + 1,
                       !.stats = LearnFromOutcome(@, PatternId(resp[t].sig),
                                                  ~SubmissionFailed(t)) ]
    /\ before' = [ before EXCEPT
                     ![t].pattern_stats = adaptive.stats[PatternId(resp[t].sig)],
                     ![t].pattern_updates = @ + 1 ]
    /\ IF SubmissionFailed(t)
       THEN /\ ret' = [ ret EXCEPT ![t] = [ kind |-> "ChallengeExecution", plan |-> NoPlan ] ]
            /\ pc' = [ pc EXCEPT ![t] = "done" ]
            /\ UNCHANGED << stateMgr, issued, metricsTotal, rec, events >>
       ELSE /\ events' = [ events EXCEPT ![t] = @ \o <<"Challenge", "PostResponse">> ]
            /\ stateMgr' = StateManagerUpdate(stateMgr, subStatus[t].status < 500)
            /\ issued' = [ issued EXCEPT ![t] = @ + 1 ]
            /\ metricsTotal' = metricsTotal + MetricsHandler("PostResponse") + 1
            /\ rec' = [ rec EXCEPT ![t] = @ \cup {"state", "metrics"} ]
            /\ pc' = [ pc EXCEPT ![t] = "rec_lock" ]
            /\ ret' = ret
    /\ UNCHANGED << componentVars, config, env, innerLock, currentProxy, proxyMgr, clients, built,
                    attempt, forced, proxy, client, sleepLeft, resp, result, plan,
                    subStatus, sends, since, asked >>

\* Faulty variant: a failed solve is waited on and retried like a mitigation.
WaitsBeforeReturnAlsoFailed(res) == res \in {"Mitigation", "Failed"}

\* request(): the match arm that sleeps for the plan's wait and may loop; every
\* other arm returns.
WaitsBeforeReturn(res) == res = "Mitigation"

\* CloudScraper::record_outcome under the coarse lock (adaptive timing,
\* anti-detection, performance monitor, ML optimizer), then the rest of the
\* match arm of request() up to its return or its next await.
RecordLocked(t) ==
    /\ pc[t] = "rec_lock"
    /\ innerLock = NoTask
    /\ adaptive' = [ adaptive EXCEPT !.timing = @ + 1, !.anti = @ + 1,
                                     !.perf = @ + 1, !.ml = @ + 1 ]
    /\ rec' = [ rec EXCEPT ![t] = @ \cup {"timing", "anti", "perf", "ml"} ]
    /\ CASE result[t] \in {"NoChallenge", "Submission"} ->
              /\ ret' = [ ret EXCEPT ![t] = [ kind |-> "Ok", plan |-> NoPlan ] ]
              /\ pc' = [ pc EXCEPT ![t] = "done" ]
              /\ UNCHANGED << events, metricsTotal, sleepLeft >>
         [] WaitsBeforeReturn(result[t]) ->
              /\ events' = [ events EXCEPT ![t] = Append(@, "Challenge") ]
              /\ sleepLeft' = [ sleepLeft EXCEPT ![t] = plan[t].wait ]
              /\ pc' = [ pc EXCEPT ![t] = "mit_wait" ]
              /\ UNCHANGED << ret, metricsTotal >>
         [] result[t] = "Unsupported" ->
              /\ events' = [ events EXCEPT ![t] = Append(@, "Challenge") ]
              /\ ret' = [ ret EXCEPT ![t] = [ kind |-> "Unsupported", plan |-> NoPlan ] ]
              /\ pc' = [ pc EXCEPT ![t] = "done" ]
              /\ UNCHANGED << metricsTotal, sleepLeft >>
         [] result[t] = "Failed" ->
              /\ events' = [ events EXCEPT ![t] = Append(@, "Error") ]
              /\ metricsTotal' = metricsTotal + MetricsHandler("Error")
              /\ ret' = [ ret EXCEPT ![t] = [ kind |-> "Pipeline", plan |-> NoPlan ] ]
              /\ pc' = [ pc EXCEPT ![t] = "done" ]
              /\ UNCHANGED sleepLeft
    /\ UNCHANGED << componentVars, config, env, innerLock, currentProxy, proxyMgr, clients, built,
                    stateMgr, attempt, forced, proxy, client, resp, result, plan,
                    subStatus, sends, issued, since, asked, before >>

\* Faulty variant: the attempt comparison is off by one.
ShouldRetryOffByOne(p, att, maxAttempts) == p.should_retry /\ att <= maxAttempts

\* request(): should_retry as computed in the Mitigation arm.
ShouldRetry(p, att, maxAttempts) == p.should_retry /\ att < maxAttempts

\* request(): the mitigation wait is over; the plan's proxy is forced for the
\* next iteration, then the loop continues (Retry event, attempt += 1) or the
\* mitigation error is returned with the plan.
MitWaitElapsed(t) ==
    /\ pc[t] = "mit_wait"
    /\ sleepLeft[t] = 0
    /\ forced' = [ forced EXCEPT ![t] =
                     IF plan[t].new_proxy # NoProxy THEN plan[t].new_proxy ELSE @ ]
    /\ IF ShouldRetry(plan[t], attempt[t], config.max_challenge_attempts)
       THEN /\ events' = [ events EXCEPT ![t] = <<"Retry">> ]
            /\ attempt' = [ attempt EXCEPT ![t] = @ + 1 ]
            /\ rec' = [ rec EXCEPT ![t] = {} ]
            /\ result' = [ result EXCEPT ![t] = "none" ]
            /\ pc' = [ pc EXCEPT ![t] = "prepare" ]
            /\ ret' = ret
       ELSE /\ ret' = [ ret EXCEPT ![t] = [ kind |-> "Mitigation", plan |-> plan[t] ] ]
            /\ pc' = [ pc EXCEPT ![t] = "done" ]
            /\ UNCHANGED << events, attempt, rec, result >>
    /\ UNCHANGED << sharedVars, proxy, client, sleepLeft, resp, plan, subStatus,
                    sends, issued, since, asked, before >>

\* --------------------------------------------------------- time and cancel
SleepPoints == {"delay_sleep", "sub_wait", "mit_wait"}

\* One tick of time: every pending sleep gets one tick shorter.
Tick ==
    /\ \E t \in Tasks : pc[t] \in SleepPoints /\ sleepLeft[t] > 0
    /\ sleepLeft' = [ t \in Tasks |->
                        IF pc[t] \in SleepPoints THEN Max(sleepLeft[t] - 1, 0)
                        ELSE sleepLeft[t] ]
    /\ since' = [ t \in Tasks |-> Min(since[t] + 1, MaxWait) ]
    /\ UNCHANGED << sharedVars, pc, attempt, forced, proxy, client, resp, result,
                    plan, subStatus, ret, sends, events, rec, issued, asked, before >>

\* Await points of request(): lock acquisitions, sleeps, network operations.
LockPoints == {"prepare", "client", "eval_lock", "sub_lock", "rec_lock"}
NetworkPoints == {"send", "body_read", "captcha_solve", "send_form", "send_replay"}
SuspensionPoints == LockPoints \cup SleepPoints \cup NetworkPoints

\* The caller drops the request future at an await point: the task stops
\* there and every guard it holds is dropped.
Cancel(t) ==
    /\ pc[t] \in SuspensionPoints
    /\ pc' = [ pc EXCEPT ![t] = "cancelled" ]
    /\ innerLock' = ReleaseGuard(innerLock, t)
    /\ UNCHANGED << componentVars, config, env, currentProxy, proxyMgr, adaptive, clients, built,
                    stateMgr, metricsTotal, attempt, forced, proxy, client,
                    sleepLeft, resp, result, plan, subStatus, ret, sends, events,
                    rec, issued, since, asked, before >>

Next ==
    \/ \E t \in Tasks : Start(t)
    \/ \E t \in Tasks : Prepare(t)
    \/ \E t \in Tasks : AcquireClient(t)
    \/ \E t \in Tasks : DelayElapsed(t)
    \/ \E t \in Tasks : Receive(t)
    \/ \E t \in Tasks : BodyRead(t)
    \/ \E t \in Tasks : Evaluate(t)
    \/ \E t \in Tasks : CaptchaDone(t)
    \/ \E t \in Tasks : Act(t)
    \/ \E t \in Tasks : SubWaitElapsed(t)
    \/ \E t \in Tasks : FormResponse(t)
    \/ \E t \in Tasks : ReplayResponse(t)
    \/ \E t \in Tasks : RecordPattern(t)
    \/ \E t \in Tasks : RecordLocked(t)
    \/ \E t \in Tasks : MitWaitElapsed(t)
    \/ \E t \in Tasks : Cancel(t)
    \/ Tick

\* Variables of the request loop, left alone by the steps of a component that
\* is exercised on its own.
requestVars ==
    << config, env, innerLock, currentProxy, proxyMgr, adaptive, clients, built,
       stateMgr, metricsTotal, pc, attempt, forced, proxy, client, sleepLeft,
       resp, result, plan, subStatus, ret, sends, events, rec, issued, since,
       asked, before >>

\* What a step of the proxy manager exercised on its own leaves alone.
outsideProxyManager == << requestVars, detectorVars, feedbackVars, moduleVars >>

\* ------------------------------------------- proxy manager with ban times
\* Last instant of the clock.
MaxNow == 2
\* Largest ProxyConfig.ban_time in ticks.
MaxBanTime == 2
\* Largest ProxyConfig.failure_threshold.
MaxThreshold == 2
\* Most failures reported on one proxy.
MaxFailures == 2

\* ProxyEntry.banned_until = None
NoBan == -1

\* RotationStrategy.  Random stands for the strategies that pick any one of
\* the available indices (Random, Smart by score, Weighted by weight).
RotationStrategies == {"Sequential", "Random", "RoundRobinSmart"}

\* ProxyConfig and the number of proxies loaded.
PxConfigs ==
    [ failure_threshold : 0..MaxThreshold,
      ban_time : 0..MaxBanTime,
      rotation_strategy : RotationStrategies,
      size : 0..Len(ProxyList) ]

NoCall == [ op |-> "none", proxy |-> 0, at |-> 0, bans |-> <<>>, failures |-> 0 ]

\* ProxyManager::new + load: no failures, no ban.
PxInit ==
    /\ pxCfg \in PxConfigs
    /\ pxNow = 0
    /\ pxEntries = [ i \in 1..pxCfg.size |-> [ failures |-> 0, banned_until |-> NoBan ] ]
    /\ pxIndex = 0
    /\ pxLast = NoCall
    /\ pxImposed = [ i \in 1..pxCfg.size |-> NoBan ]
    /\ pxLifted = [ i \in 1..pxCfg.size |-> FALSE ]
    /\ pxPanicked = FALSE

\* The proxy manager before it is exercised on its own.
PxIdle ==
    /\ pxCfg = [ failure_threshold |-> DefaultFailureThreshold, ban_time |-> 0,
                 rotation_strategy |-> "Sequential", size |-> 0 ]
    /\ pxNow = 0
    /\ pxEntries = <<>>
    /\ pxIndex = 0
    /\ pxLast = NoCall
    /\ pxImposed = <<>>
    /\ pxLifted = <<>>
    /\ pxPanicked = FALSE

\* banned_until of every entry, in pool order.
PxBans(entries) == [ i \in 1..Len(entries) |-> entries[i].banned_until ]

RECURSIVE PxIndicesFrom(_, _, _)
\* next_proxy, first loop: the indices from i on that carry no ban or a ban
\* that expired (until <= now), in pool order.
PxIndicesFrom(entries, now, i) ==
    IF i > Len(entries) THEN <<>>
    ELSE IF entries[i].banned_until = NoBan \/ entries[i].banned_until <= now
         THEN <<i>> \o PxIndicesFrom(entries, now, i + 1)
         ELSE PxIndicesFrom(entries, now, i + 1)

\* next_proxy, first loop: expired bans are cleared.
PxExpire(entries, now) ==
    [ i \in 1..Len(entries) |->
        IF entries[i].banned_until # NoBan /\ entries[i].banned_until <= now
        THEN [ entries[i] EXCEPT !.banned_until = NoBan ]
        ELSE entries[i] ]

\* Faulty variant: the entry with the latest ban expiry.
PxLatest(entries) ==
    CHOOSE i \in 1..Len(entries) :
        \A j \in 1..Len(entries) :
            \/ entries[i].banned_until > entries[j].banned_until
            \/ entries[i].banned_until = entries[j].banned_until /\ i >= j

\* next_proxy: min_by_key over banned_until, the first of the entries with the
\* earliest ban expiry.
PxEarliest(entries) ==
    CHOOSE i \in 1..Len(entries) :
        \A j \in 1..Len(entries) :
            \/ entries[i].banned_until < entries[j].banned_until
            \/ entries[i].banned_until = entries[j].banned_until /\ i <= j

\* ProxyManager::next_proxy at time now.  choice is the index a random or
\* scored strategy picks among the available ones; cool is the set of indices
\* whose last failure is older than the cooldown (RoundRobinSmart).  The result
\* is the new entries, the new current_index and the index returned (0 for None).
PxNextProxy(entries, index, now, strategy, choice, cool) ==
    IF Len(entries) = 0 THEN [ entries |-> entries, index |-> index, selected |-> 0 ]
    ELSE
        LET avail == PxIndicesFrom(entries, now, 1)
            cleared == PxExpire(entries, now)
        IN  IF avail = <<>>
            THEN LET e == PxEarliest(cleared)
                 IN  [ entries |-> [ cleared EXCEPT ![e].banned_until = NoBan ],
                       index |-> index, selected |-> e ]
            ELSE CASE strategy = "Sequential" ->
                        [ entries |-> cleared,
                          index |-> (index + 1) % Len(avail),
                          selected |-> avail[(index % Len(avail)) + 1] ]
                   [] strategy = "Random" ->
                        [ entries |-> cleared, index |-> index, selected |-> choice ]
                   [] strategy = "RoundRobinSmart" ->
                        LET filtered == SelectSeq(avail, LAMBDA i : i \in cool)
                            pool == IF filtered = <<>> THEN avail ELSE filtered
                        IN  [ entries |-> cleared,
                              index |-> (index + 1) % Len(pool),
                              selected |-> pool[(index % Len(pool)) + 1] ]

\* Faulty variant: the ban is imposed without the ban time.
PxReportFailureNoBanTime(entries, i, now, cfg) ==
    LET f == entries[i].failures + 1
    IN  IF cfg.failure_threshold = 0
        THEN [ entries |-> [ entries EXCEPT ![i].failures = f ], panicked |-> TRUE ]
        ELSE [ entries |-> [ entries EXCEPT
                               ![i].failures = f,
                               ![i].banned_until =
                                   IF f % cfg.failure_threshold = 0 THEN now ELSE @ ],
               panicked |-> FALSE ]

\* ProxyManager::report_failure on entry i at time now.  The remainder by a
\* failure_threshold of 0 panics after the failure was counted.
PxReportFailure(entries, i, now, cfg) ==
    LET f == entries[i].failures + 1
    IN  IF cfg.failure_threshold = 0
        THEN [ entries |-> [ entries EXCEPT ![i].failures = f ], panicked |-> TRUE ]
        ELSE [ entries |-> [ entries EXCEPT
                               ![i].failures = f,
                               ![i].banned_until =
                                   IF f % cfg.failure_threshold = 0
                                   THEN now + cfg.ban_time ELSE @ ],
               panicked |-> FALSE ]

\* ProxyManager::report_success on entry i: the ban is cleared (the success
\* counter is not part of this model).
PxReportSuccess(entries, i) == [ entries EXCEPT ![i].banned_until = NoBan ]

\* Time passes.
PxAdvance ==
    /\ pxNow < MaxNow
    /\ pxNow' = pxNow + 1
    /\ UNCHANGED << pxCfg, pxEntries, pxIndex, pxLast, pxImposed, pxLifted, pxPanicked,
                    outsideProxyManager >>

\* A caller asks for the next proxy.
PxNext ==
    /\ ~pxPanicked
    /\ LET avail == PxIndicesFrom(pxEntries, pxNow, 1)
       IN  \E choice \in (IF avail # <<>> /\ pxCfg.rotation_strategy = "Random"
                           THEN SeqRange(avail) ELSE {0}),
              cool \in (IF pxCfg.rotation_strategy = "RoundRobinSmart"
                         THEN SUBSET { i \in 1..Len(pxEntries) : pxEntries[i].failures > 0 }
                         ELSE {{}}) :
             LET fresh == { i \in 1..Len(pxEntries) : pxEntries[i].failures = 0 }
                 got == PxNextProxy(pxEntries, pxIndex, pxNow, pxCfg.rotation_strategy,
                                    choice, cool \cup fresh)
             IN  /\ pxEntries' = got.entries
                 /\ pxIndex' = got.index
                 /\ pxLast' = [ op |-> "next", proxy |-> got.selected, at |-> pxNow,
                                bans |-> PxBans(pxEntries), failures |-> 0 ]
                 /\ pxLifted' = IF got.selected # 0 /\ avail = <<>>
                                THEN [ pxLifted EXCEPT ![got.selected] = TRUE ]
                                ELSE pxLifted
    /\ UNCHANGED << pxCfg, pxNow, pxImposed, pxPanicked, outsideProxyManager >>

\* A caller reports a failure on a proxy of the pool.
PxFail(i) ==
    /\ ~pxPanicked
    /\ i \in 1..Len(pxEntries)
    /\ pxEntries[i].failures < MaxFailures
    /\ LET got == PxReportFailure(pxEntries, i, pxNow, pxCfg)
           banned == got.entries[i].banned_until # pxEntries[i].banned_until
                        \/ (~got.panicked /\ got.entries[i].failures % pxCfg.failure_threshold = 0)
       IN  /\ pxEntries' = got.entries
           /\ pxPanicked' = got.panicked
           /\ pxImposed' = IF banned
                           THEN [ pxImposed EXCEPT ![i] = got.entries[i].banned_until ]
                           ELSE pxImposed
           /\ pxLifted' = IF banned THEN [ pxLifted EXCEPT ![i] = FALSE ] ELSE pxLifted
    /\ pxLast' = [ op |-> "fail", proxy |-> i, at |-> pxNow,
                   bans |-> PxBans(pxEntries), failures |-> pxEntries[i].failures ]
    /\ UNCHANGED << pxCfg, pxNow, pxIndex, outsideProxyManager >>

\* A caller reports a success on a proxy of the pool.
PxSuccess(i) ==
    /\ ~pxPanicked
    /\ i \in 1..Len(pxEntries)
    /\ pxEntries' = PxReportSuccess(pxEntries, i)
    /\ pxLifted' = [ pxLifted EXCEPT ![i] = TRUE ]
    /\ pxLast' = [ op |-> "success", proxy |-> i, at |-> pxNow,
                   bans |-> PxBans(pxEntries), failures |-> pxEntries[i].failures ]
    /\ UNCHANGED << pxCfg, pxNow, pxIndex, pxImposed, pxPanicked, outsideProxyManager >>

NextProxyManager ==
    \/ PxAdvance
    \/ PxNext
    \/ \E i \in 1..Len(ProxyList) : PxFail(i)
    \/ \E i \in 1..Len(ProxyList) : PxSuccess(i)

\* --------------------------------------------- challenge detector on its own
\* Most regexes in the list handed to add_adaptive_pattern.
MaxRaw == 2
\* Most adaptive patterns registered.
MaxAdaptive == 1
\* Most outcomes learned from.
MaxOutcomes == 1
\* Most detections recorded.
MaxDetections == 1
\* Most patterns a body matches.
MaxMatched == 2

\* ChallengeDetector::new: max_history
MaxHistory == 1000

\* "A.io", "b.io"
DtDomains == { << 65, 46, 105, 111 >>, << 98, 46, 105, 111 >> }

\* Keys of adaptive_patterns: lowercased domains.
DtKeys == { ToAsciiLowercase(d) : d \in DtDomains }

AdaptiveIds == { AdaptivePattern(d, n).id : d \in DtDomains, n \in 1..MaxRaw }

\* Server headers: none, "cloudflare", "CloudFlare-nginx", "cloudflar", and
\* "cloudflare" followed by the byte 0xE9.
DtServers ==
    { [ present |-> FALSE, bytes |-> <<>> ],
      [ present |-> TRUE, bytes |-> Cloudflare ],
      [ present |-> TRUE,
        bytes |-> << 67, 108, 111, 117, 100, 70, 108, 97, 114, 101, 45,
                     110, 103, 105, 110, 120 >> ],
      [ present |-> TRUE, bytes |-> SubSeq(Cloudflare, 1, Len(Cloudflare) - 1) ],
      [ present |-> TRUE, bytes |-> Cloudflare \o << 233 >> ] }

DtStatuses == {200, 403, 429, 503}

\* Bodies: how many regexes of each catalog pattern match, and which regexes
\* of the caller's adaptive list match.
DtBodies ==
    UNION { { [ known |-> [ id \in KnownIds |-> IF id \in S THEN g[id] ELSE 0 ],
                raw |-> raw ] :
                g \in { h \in [ S -> 1..4 ] : \A id \in S : h[id] <= KnownTotal(id) } } :
            S \in { T \in SUBSET KnownIds : Cardinality(T) <= MaxMatched },
            raw \in SUBSET (1..MaxRaw) }

\* Responses of the host a.io.
DtResponses ==
    { [ server |-> sv, status |-> st, host |-> << 97, 46, 105, 111 >>, url |-> 0,
        body |-> b ] :
        sv \in DtServers, st \in DtStatuses,
        b \in { c \in DtBodies :
                  Cardinality({ id \in KnownIds : c.known[id] > 0 })
                    + (IF c.raw = {} THEN 0 ELSE 1) <= MaxMatched } }

DtNoCall == [ op |-> "none", detection |-> NoDetection, history |-> <<>> ]

\* ChallengeDetector::new
DtNew ==
    /\ dtAdaptive = [ k \in DtKeys |-> <<>> ]
    /\ dtStats = [ id \in KnownIds \cup AdaptiveIds |-> NoStats ]
    /\ dtHistory = <<>>
    /\ dtLast = DtNoCall

\* A new detector and the response it will be shown.
DtInit == DtNew /\ dtResp \in DtResponses

\* The detector before it is exercised on its own.
DtIdle ==
    /\ DtNew
    /\ dtResp = [ server |-> [ present |-> FALSE, bytes |-> <<>> ], status |-> 200,
                  host |-> << 97, 46, 105, 111 >>, url |-> 0,
                  body |-> [ known |-> [ id \in KnownIds |-> 0 ], raw |-> {} ] ]

\* Faulty variant: a full history drops its newest entry.
RecordDetectionDroppingNewest(history, detection) ==
    Append(IF Len(history) = MaxHistory THEN SubSeq(history, 1, Len(history) - 1)
           ELSE history,
           [ pattern_id |-> detection.pattern_id, confidence |-> detection.confidence,
             url |-> detection.url ])

\* record_detection: drop the oldest entry of a full history, then append.
RecordDetection(history, detection) ==
    Append(IF Len(history) = MaxHistory THEN Tail(history) ELSE history,
           [ pattern_id |-> detection.pattern_id, confidence |-> detection.confidence,
             url |-> detection.url ])

\* What a step of the detector exercised on its own leaves alone.
outsideDetector == << requestVars, proxyVars, feedbackVars, moduleVars >>

\* A caller hands a response to detect().
DtDetect ==
    LET detection == DetectorDetect(dtAdaptive, dtStats, dtResp)
    IN  /\ detection.found => Len(dtHistory) < MaxDetections
        /\ dtHistory' = IF detection.found
                        THEN RecordDetection(dtHistory, detection)
                        ELSE dtHistory
        /\ dtLast' = [ op |-> "detect", detection |-> detection, history |-> dtHistory ]
        /\ UNCHANGED << dtAdaptive, dtStats, dtResp, outsideDetector >>

\* The patterns the detector holds of which a regex matches the response
\* under test.  evaluate_pattern returns before it reads the statistics of any
\* other pattern.
DtMatching ==
    { pattern \in { KnownPatterns[i] : i \in 1..Len(KnownPatterns) } \cup
                  UNION { { dtAdaptive[k][i] : i \in 1..Len(dtAdaptive[k]) } : k \in DtKeys } :
        MatchCount(pattern, dtResp.body) > 0 }

\* Number of outcomes learned so far.
DtLearned ==
    Cardinality(UNION { { << id, j >> : j \in 1..dtStats[id].attempts } :
                        id \in KnownIds \cup AdaptiveIds })

\* Number of adaptive patterns registered so far.
DtRegistered ==
    Cardinality(UNION { { << k, i >> : i \in 1..Len(dtAdaptive[k]) } : k \in DtKeys })

\* A caller feeds back the outcome of a pattern.
DtLearn ==
    \E pattern \in DtMatching, success \in BOOLEAN :
        /\ DtLearned < MaxOutcomes
        /\ dtStats' = LearnFromOutcome(dtStats, pattern.id, success)
        /\ dtLast' = DtNoCall
        /\ UNCHANGED << dtAdaptive, dtHistory, dtResp, outsideDetector >>

\* add_adaptive_pattern: the pattern is stored under the lowercased domain.
AddAdaptivePattern(adaptivePatterns, domain, n) ==
    [ adaptivePatterns EXCEPT ![ToAsciiLowercase(domain)] = Append(@, AdaptivePattern(domain, n)) ]

\* A caller registers an adaptive pattern.
DtAddAdaptive ==
    \E domain \in DtDomains, n \in 1..MaxRaw :
        /\ DtRegistered < MaxAdaptive
        /\ dtAdaptive' = AddAdaptivePattern(dtAdaptive, domain, n)
        /\ dtLast' = DtNoCall
        /\ UNCHANGED << dtStats, dtHistory, dtResp, outsideDetector >>

NextDetector ==
    \/ DtDetect
    \/ DtLearn
    \/ DtAddAdaptive

\* ------------------------------------------------ detection history at length
\* Most successful detections.
MaxHits == 1002

\* A Cloudflare response whose body matches every regex of the IUAM v1
\* pattern, and the same page served with status 200, which the gate rejects.
\* url numbers the page requested.
HsResponse(hit, url) ==
    [ server |-> [ present |-> TRUE, bytes |-> Cloudflare ],
      status |-> IF hit THEN 503 ELSE 200,
      host |-> << 97, 46, 105, 111 >>, url |-> url,
      body |-> [ known |-> [ id \in KnownIds |->
                               IF id = <<"cf_iuam_v1">> THEN KnownTotal(id) ELSE 0 ],
                 raw |-> {} ] ]

\* A new detector; no page was requested yet.
HsInit == DtNew /\ dtResp = HsResponse(FALSE, 0)

\* Number of responses detected so far: the pages are numbered from 1, a
\* rejected response is followed by a request for the same page.
HsHits == IF dtResp.status = 503 THEN dtResp.url ELSE Max(dtResp.url - 1, 0)

\* A caller hands the next response to detect().
HsDetect ==
    \E hit \in BOOLEAN :
        LET r == HsResponse(hit, HsHits + 1)
            detection == DetectorDetect(dtAdaptive, dtStats, r)
        IN  /\ HsHits < MaxHits
            /\ dtResp' = r
            /\ dtHistory' = IF detection.found
                            THEN RecordDetection(dtHistory, detection)
                            ELSE dtHistory
            /\ dtLast' = [ op |-> "detect", detection |-> detection, history |-> dtHistory ]
            /\ UNCHANGED << dtAdaptive, dtStats, outsideDetector >>

NextHistory == HsDetect

\* ------------------------------------- outcome bookkeeping of one host
\* Most outcomes reported.
MaxRecorded == 258

\* ERROR_HISTORY_LIMIT
ErrorHistoryLimit == 50
\* RECENT_DELAY_LIMIT
RecentDelayLimit == 32
\* DefaultAdaptiveTiming::record_outcome: capacity of recent_delays
TimingDelayLimit == 32
\* DefaultAdaptiveTiming::record_outcome: capacity of global_history
GlobalHistoryLimit == 256
\* DefaultAdaptiveTiming::record_outcome: ceiling of consecutive_failures
TimingFailureCeiling == 5
\* MetricsCollector::new: max_window
MetricsWindow == 128
\* u8::MAX
MaxU8 == 255

\* u8::saturating_add(1)
SaturatingIncU8(n) == Min(n + 1, MaxU8)

\* push_back, then pop_front while the deque is longer than the limit.
PushThenTrim(len, limit) == IF len + 1 > limit THEN len ELSE len + 1

\* Faulty variant: the deque is trimmed only once it is longer than the limit.
TrimThenPushLate(len, limit) == (IF len > limit THEN len - 1 ELSE len) + 1

\* pop_front when the deque is at the limit, then push_back.
TrimThenPush(len, limit) == (IF len = limit THEN len - 1 ELSE len) + 1

\* TimingState::apply_boolean_outcome: the consecutive-failures counter.
ApplyBooleanOutcome(consecutive, success) ==
    IF success THEN 0 ELSE SaturatingIncU8(consecutive)

\* DefaultAdaptiveTiming::record_outcome: the consecutive-failures counter.
TimingConsecutive(consecutive, success) ==
    IF success THEN 0 ELSE Min(SaturatingIncU8(consecutive), TimingFailureCeiling)

\* StateManager::new, DefaultAdaptiveTiming::new, MetricsCollector::new: no
\* outcome on record.
FbNew ==
    /\ fbRecorded = 0
    /\ fbErrors = 0
    /\ fbConsecutive = 0
    /\ fbDelays = 0
    /\ atConsecutive = 0
    /\ atDelays = 0
    /\ atGlobal = 0
    /\ mxLatencies = 0

FbInit == FbNew /\ fbTimed \in BOOLEAN

\* The bookkeeping before it is exercised on its own.
FbIdle == FbNew /\ fbTimed = FALSE

\* What a step of the bookkeeping exercised on its own leaves alone.
outsideFeedback == << requestVars, proxyVars, detectorVars, moduleVars >>

\* One outcome of the host is reported to the state manager (record_success /
\* record_failure, or record_outcome with response time and delay), to the
\* metrics collector and to adaptive timing, as CloudScraper::record_outcome
\* does.
FbRecord(success) ==
    /\ fbRecorded < MaxRecorded
    /\ fbRecorded' = fbRecorded + 1
    /\ fbConsecutive' = ApplyBooleanOutcome(fbConsecutive, success)
    /\ fbDelays' = IF fbTimed THEN PushThenTrim(fbDelays, RecentDelayLimit) ELSE fbDelays
    /\ fbErrors' = IF success THEN 0 ELSE PushThenTrim(fbErrors, ErrorHistoryLimit)
    /\ mxLatencies' = TrimThenPush(mxLatencies, MetricsWindow)
    /\ atConsecutive' = TimingConsecutive(atConsecutive, success)
    /\ atDelays' = TrimThenPush(atDelays, TimingDelayLimit)
    /\ atGlobal' = TrimThenPush(atGlobal, GlobalHistoryLimit)
    /\ UNCHANGED << fbTimed, outsideFeedback >>

NextFeedback == \E success \in BOOLEAN : FbRecord(success)

\* ------------------------------------------------------------ ML optimizer
\* Largest MLConfig.window_size.
MaxWindow == 2
\* Most record_attempt calls.
MaxAttempts == 4

\* Rates and weights are kept in thousandths.
Thousandth == 1000
\* MLConfig::default: learning_rate 0.15
LearningRate == 150

MlDomains == {"a.io", "b.io"}

\* Values of the one feature the callers record, in seconds.
MlValues == {1, 3}

\* DomainModel::new
DomainModelNew == [ attempts |-> <<>>, success_rate |-> Thousandth, weight |-> 0 ]

\* MLOptimizer::new: no domain has a model.
MlNoModel == [ present |-> FALSE, model |-> DomainModelNew ]

\* DomainModel::push: pop_front when len() == window_size (a no-op on an empty
\* deque), then push_back.
DomainModelPush(attempts, window, record) ==
    Append(IF Len(attempts) = window /\ attempts # <<>> THEN Tail(attempts) ELSE attempts,
           record)

RECURSIVE SumValues(_, _, _)
\* Sum of the feature values of the attempts from i on with the given outcome.
SumValues(attempts, success, i) ==
    IF i > Len(attempts) THEN 0
    ELSE (IF attempts[i].success = success THEN attempts[i].value ELSE 0)
             + SumValues(attempts, success, i + 1)

\* record_attempt: average of the feature over the attempts with the given
\* outcome, 0.0 when there is none.
AverageValue(attempts, success) ==
    LET count == Cardinality({ i \in 1..Len(attempts) : attempts[i].success = success })
    IN  IF count = 0 THEN 0
        ELSE (SumValues(attempts, success, 1) * Thousandth) \div count

\* MLOptimizer::record_attempt on the model of one domain.
RecordAttempt(model, window, record) ==
    LET attempts == DomainModelPush(model.attempts, window, record)
    IN  [ attempts |-> attempts,
          success_rate |->
              ((Thousandth - LearningRate) * model.success_rate
                  + LearningRate * (IF record.success THEN Thousandth ELSE 0)) \div Thousandth,
          weight |-> AverageValue(attempts, TRUE) - AverageValue(attempts, FALSE) ]

\* MLOptimizer::new with one of the window sizes.
MlInit ==
    /\ mlWindow \in 0..MaxWindow
    /\ mlModels = [ d \in MlDomains |-> MlNoModel ]
    /\ mlRecorded = 0

\* The optimizer before it is exercised on its own.
MlIdle ==
    /\ mlWindow = 0
    /\ mlModels = [ d \in MlDomains |-> MlNoModel ]
    /\ mlRecorded = 0

\* What a step of the optimizer exercised on its own leaves alone.
outsideML ==
    << requestVars, proxyVars, detectorVars, feedbackVars, accessVars, evasionVars,
       cooldownVars, timingVars,
       executorVars, headerVars, mitigationVars >>

\* A caller records an attempt; model_mut creates the model of a new domain.
\* Records are numbered in call order.
MlRecordAttempt ==
    \E d \in MlDomains, v \in MlValues, success \in BOOLEAN :
        /\ mlRecorded < MaxAttempts
        /\ mlRecorded' = mlRecorded + 1
        /\ mlModels' = [ mlModels EXCEPT ![d] =
                           [ present |-> TRUE,
                             model |-> RecordAttempt(@.model, mlWindow,
                                           [ ord |-> mlRecorded + 1, value |-> v,
                                             success |-> success ]) ] ]
        /\ UNCHANGED << mlWindow, outsideML >>

\* clear_domain
MlClearDomain ==
    \E d \in MlDomains :
        /\ mlModels[d].present
        /\ mlModels' = [ mlModels EXCEPT ![d] = MlNoModel ]
        /\ UNCHANGED << mlWindow, mlRecorded, outsideML >>

NextML == MlRecordAttempt \/ MlClearDomain

\* ------------------------------------------------- access-denied handler
\* MitigationPlan of the handler; new_proxy is the pool index of the proxy, 0
\* for None, and rotation is metadata["proxy_rotation"].
AdRetry(wait) ==
    [ should_retry |-> TRUE, wait |-> wait, reason |-> "access_denied",
      new_proxy |-> 0, rotation |-> "none" ]

AdNoRetry(wait, rotation) ==
    [ AdRetry(wait) EXCEPT !.should_retry = FALSE, !.reason = "access_denied_no_proxy",
                           !.rotation = rotation ]

\* Faulty variant: the replacement is picked before the failure is reported.
AccessDeniedHandlerPlanPickingFirst(entries, index, now, cfg, hasPool, current, choice, cool, wait) ==
    IF ~hasPool
    THEN [ entries |-> entries, index |-> index, panicked |-> FALSE,
           plan |-> AdNoRetry(wait, "not_configured") ]
    ELSE LET next == PxNextProxy(entries, index, now, cfg.rotation_strategy, choice, cool)
             reported == IF current \in 1..Len(entries)
                         THEN PxReportFailure(next.entries, current, now, cfg)
                         ELSE [ entries |-> next.entries, panicked |-> FALSE ]
         IN  [ entries |-> reported.entries, index |-> next.index,
               panicked |-> reported.panicked,
               plan |-> IF next.selected # 0
                        THEN [ AdRetry(wait) EXCEPT !.new_proxy = next.selected,
                                                    !.rotation = "success" ]
                        ELSE AdNoRetry(wait, "unavailable") ]

\* AccessDeniedHandler::plan once the signature matched, on a ProxyManager as
\* the pool.  current is the pool index of current_proxy, 0 for None and -1
\* for an endpoint the pool does not hold.  A panic of report_failure leaves
\* the call without a plan.
AccessDeniedHandlerPlan(entries, index, now, cfg, hasPool, current, choice, cool, wait) ==
    IF ~hasPool
    THEN [ entries |-> entries, index |-> index, panicked |-> FALSE,
           plan |-> AdNoRetry(wait, "not_configured") ]
    ELSE LET reported == IF current \in 1..Len(entries)
                         THEN PxReportFailure(entries, current, now, cfg)
                         ELSE [ entries |-> entries, panicked |-> FALSE ]
         IN  IF reported.panicked
             THEN [ entries |-> reported.entries, index |-> index, panicked |-> TRUE,
                    plan |-> AdNoRetry(wait, "none") ]
             ELSE LET next == PxNextProxy(reported.entries, index, now,
                                          cfg.rotation_strategy, choice, cool)
                  IN  [ entries |-> next.entries, index |-> next.index,
                        panicked |-> FALSE,
                        plan |-> IF next.selected # 0
                                 THEN [ AdRetry(wait) EXCEPT !.new_proxy = next.selected,
                                                             !.rotation = "success" ]
                                 ELSE AdNoRetry(wait, "unavailable") ]

\* The last call of plan().
AdNoCall ==
    [ op |-> "none", current |-> 0, panicked |-> FALSE,
      plan |-> AdNoRetry(0, "none") ]

\* A proxy manager and a handler; callers hand the manager to plan() or not.
AdInit == adPool \in BOOLEAN /\ adLast = AdNoCall

\* The handler before it is exercised on its own.
AdIdle == adPool = FALSE /\ adLast = AdNoCall

\* What a step of the handler exercised on its own leaves alone.
outsideAccessDenied ==
    << requestVars, detectorVars, feedbackVars, mlVars, evasionVars, cooldownVars,
       timingVars,
       executorVars, headerVars, mitigationVars >>

\* A 1020 response is planned for.  The delay is drawn from [5, 15) seconds,
\* in ticks.
AdPlan ==
    /\ ~pxPanicked
    /\ \E current \in -1..Len(pxEntries), wait \in 1..MaxWait :
        LET afterReport == IF adPool /\ current \in 1..Len(pxEntries)
                              /\ pxCfg.failure_threshold # 0
                           THEN PxReportFailure(pxEntries, current, pxNow, pxCfg).entries
                           ELSE pxEntries
            avail == PxIndicesFrom(afterReport, pxNow, 1)
        IN  \E choice \in (IF avail # <<>> /\ pxCfg.rotation_strategy = "Random"
                            THEN SeqRange(avail) ELSE {0}),
               cool \in (IF pxCfg.rotation_strategy = "RoundRobinSmart"
                          THEN SUBSET { i \in 1..Len(pxEntries) : afterReport[i].failures > 0 }
                          ELSE {{}}) :
              LET fresh == { i \in 1..Len(pxEntries) : afterReport[i].failures = 0 }
                  got == AccessDeniedHandlerPlan(pxEntries, pxIndex, pxNow, pxCfg, adPool,
                                                 current, choice, cool \cup fresh, wait)
              IN  /\ (adPool /\ current \in 1..Len(pxEntries))
                        => pxEntries[current].failures < MaxFailures
                  /\ pxEntries' = got.entries
                  /\ pxIndex' = got.index
                  /\ pxPanicked' = got.panicked
                  /\ adLast' = [ op |-> "plan", current |-> current,
                                 panicked |-> got.panicked, plan |-> got.plan ]
    /\ UNCHANGED << pxCfg, pxNow, pxLast, pxImposed, pxLifted, adPool, outsideAccessDenied >>

NextAccessDenied ==
    \/ AdPlan
    \/ PxAdvance

\* ------------------------------------ fingerprints, TLS profiles, bot management
\* Largest TLSConfig.rotation_interval.
MaxInterval == 2
\* Most profiles added with add_custom_profile.
MaxCustom == 1
\* Most fingerprints drawn.
MaxFingerprints == 2

\* The host the generator and the TLS manager are asked about.
EvDomains == {"a.io"}

\* ConsistencyLevel
ConsistencyLevels == {"None", "Domain", "Global"}

\* BrowserType, in declaration order: Chrome, Firefox, Safari, Edge,
\* MobileChrome, MobileSafari.
BrowserTypes == 1..6

\* build_default_profiles: the browser of each profile (there is none for Edge).
DefaultProfiles == << 1, 2, 3, 5, 6 >>

\* TLSConfig.preferred_browser: the browser of the first default profile, of a
\* later one, and one without a default profile.
PreferredBrowsers == {1, 2, 4}

\* A profile handed to add_custom_profile.
CustomProfile == 7

\* promote_preferred_profile: swap(0, pos) when a profile of the preferred
\* browser exists.
PromotePreferredProfile(profiles, preferred) ==
    IF \E pos \in 1..Len(profiles) : profiles[pos] = preferred
    THEN LET pos == CHOOSE q \in 1..Len(profiles) : profiles[q] = preferred
         IN  [ profiles EXCEPT ![1] = profiles[pos], ![pos] = profiles[1] ]
    ELSE profiles

\* No entry in per_domain.
NoTlsState == [ present |-> FALSE, profile_index |-> 0, requests_since_rotation |-> 0 ]

\* domain_state_mut: the entry of the domain, created with the drawn index
\* when it is missing.
DomainStateMut(st, idx) ==
    IF st.present THEN st
    ELSE [ present |-> TRUE, profile_index |-> idx, requests_since_rotation |-> 0 ]

\* DefaultTLSManager::rotate_profile on the entry of one domain.  idx is the
\* index domain_state_mut draws, pick the candidate that choose() draws among
\* the indices other than the current one.
RotateProfile(st, len, idx, pick) ==
    LET state == [ DomainStateMut(st, idx) EXCEPT !.requests_since_rotation = 0 ]
    IN  IF len <= 1 THEN state
        ELSE [ state EXCEPT !.profile_index = pick ]

\* DefaultTLSManager::current_profile on the entry of one domain: the new
\* entry and the index of the profile returned.
CurrentProfile(st, interval, len, idx, pick) ==
    LET counted == [ DomainStateMut(st, idx) EXCEPT !.requests_since_rotation = @ + 1 ]
        state == IF counted.requests_since_rotation >= interval
                 THEN RotateProfile(counted, len, idx, pick)
                 ELSE counted
    IN  [ state |-> state, index |-> state.profile_index ]

\* FingerprintGenerator::generate_for.  random_fingerprint draws canvas and
\* audio seeds of 64 bits each: every draw is taken to differ from the
\* fingerprints drawn before, which are numbered from 1.
GenerateFor(level, cache, global, drawn, domain) ==
    CASE level = "None" ->
            [ cache |-> cache, global |-> global, issued |-> drawn + 1, fp |-> drawn + 1 ]
      [] level = "Global" ->
            IF global = 0
            THEN [ cache |-> cache, global |-> drawn + 1, issued |-> drawn + 1,
                   fp |-> drawn + 1 ]
            ELSE [ cache |-> cache, global |-> global, issued |-> drawn, fp |-> global ]
      [] level = "Domain" ->
            IF cache[domain] = 0
            THEN [ cache |-> [ cache EXCEPT ![domain] = drawn + 1 ], global |-> global,
                   issued |-> drawn + 1, fp |-> drawn + 1 ]
            ELSE [ cache |-> cache, global |-> global, issued |-> drawn,
                   fp |-> cache[domain] ]

\* FingerprintGenerator::invalidate
Invalidate(cache, domain) == [ cache EXCEPT ![domain] = 0 ]

\* The last call and, for plan(), the metadata of the plan.
EvNoCall ==
    [ op |-> "none", domain |-> "a.io", fingerprint_reset |-> FALSE, tls_rotated |-> FALSE ]

\* FingerprintGenerator::new + with_consistency, DefaultTLSManager::new.
EvNew(levels, intervals, preferred) ==
    /\ fpLevel \in levels
    /\ fpCache = [ d \in EvDomains |-> 0 ]
    /\ fpGlobal = 0
    /\ fpIssued = 0
    /\ fpUsed = [ d \in EvDomains |-> [ fp |-> 0, resetFrom |-> 0 ] ]
    /\ tlsInterval \in intervals
    /\ tlsProfiles \in { PromotePreferredProfile(DefaultProfiles, b) : b \in preferred }
    /\ tlsState = [ d \in EvDomains |-> NoTlsState ]
    /\ tlsSeen = [ d \in EvDomains |-> [ called |-> FALSE, index |-> 0, rotations |-> 0 ] ]
    /\ evLast = EvNoCall

EvInit == EvNew(ConsistencyLevels, 0..MaxInterval, PreferredBrowsers)

\* The generator and the TLS manager before they are exercised on their own.
EvIdle == EvNew({"Domain"}, {0}, {1})

\* What a step of these components exercised on their own leaves alone.
outsideEvasion ==
    << requestVars, proxyVars, detectorVars, feedbackVars, mlVars, accessVars,
       cooldownVars, timingVars,
       executorVars, headerVars, mitigationVars >>

\* prepare_request asks for the fingerprint of the domain.
EvGenerate ==
    \E d \in EvDomains :
        LET got == GenerateFor(fpLevel, fpCache, fpGlobal, fpIssued, d)
        IN  /\ got.issued <= MaxFingerprints
            /\ fpCache' = got.cache
            /\ fpGlobal' = got.global
            /\ fpIssued' = got.issued
            /\ fpUsed' = [ fpUsed EXCEPT ![d] = [ fp |-> got.fp, resetFrom |-> 0 ] ]
            /\ evLast' = [ EvNoCall EXCEPT !.op = "generate", !.domain = d ]
            /\ UNCHANGED << fpLevel, tlsInterval, tlsProfiles, tlsState, tlsSeen,
                            outsideEvasion >>

\* A caller asks for the TLS profile of the domain.
EvCurrentProfile ==
    \E d \in EvDomains, idx \in 1..Len(tlsProfiles), pick \in 1..Len(tlsProfiles) :
        LET got == CurrentProfile(tlsState[d], tlsInterval, Len(tlsProfiles), idx, pick)
        IN  /\ tlsState[d].present => idx = tlsState[d].profile_index
            /\ pick # DomainStateMut(tlsState[d], idx).profile_index
            /\ tlsState' = [ tlsState EXCEPT ![d] = got.state ]
            /\ tlsSeen' = [ tlsSeen EXCEPT ![d] =
                              [ called |-> TRUE, index |-> got.index, rotations |-> 0 ] ]
            /\ evLast' = [ EvNoCall EXCEPT !.op = "current", !.domain = d ]
            /\ UNCHANGED << fpLevel, fpCache, fpGlobal, fpIssued, fpUsed, tlsInterval,
                            tlsProfiles, outsideEvasion >>

\* rotate_profile calls since the last current_profile call: none, one, more.
CountRotation(seen) == [ seen EXCEPT !.rotations = Min(@ + 1, 2) ]

\* A caller forces a rotation.
EvRotateProfile ==
    \E d \in EvDomains, idx \in 1..Len(tlsProfiles), pick \in 1..Len(tlsProfiles) :
        /\ tlsState[d].present => idx = tlsState[d].profile_index
        /\ pick # DomainStateMut(tlsState[d], idx).profile_index
        /\ tlsState' = [ tlsState EXCEPT ![d] = RotateProfile(@, Len(tlsProfiles), idx, pick) ]
        /\ tlsSeen' = [ tlsSeen EXCEPT ![d] = CountRotation(@) ]
        /\ evLast' = [ EvNoCall EXCEPT !.op = "rotate", !.domain = d ]
        /\ UNCHANGED << fpLevel, fpCache, fpGlobal, fpIssued, fpUsed, tlsInterval,
                        tlsProfiles, outsideEvasion >>

\* add_custom_profile
EvAddCustomProfile ==
    /\ Len(tlsProfiles) < Len(DefaultProfiles) + MaxCustom
    /\ tlsProfiles' = Append(tlsProfiles, CustomProfile)
    /\ evLast' = [ EvNoCall EXCEPT !.op = "add" ]
    /\ UNCHANGED << fpLevel, fpCache, fpGlobal, fpIssued, fpUsed, tlsInterval, tlsState,
                    tlsSeen, outsideEvasion >>

\* BotManagementHandler::plan once the signature matched, called without a
\* failure recorder: the metadata the plan carries and what the managers
\* handed to it are left with.
EvPlan ==
    \E d \in EvDomains, hasFingerprint \in BOOLEAN, hasTls \in BOOLEAN,
       idx \in 1..Len(tlsProfiles), pick \in 1..Len(tlsProfiles) :
        /\ (hasTls /\ tlsState[d].present) => idx = tlsState[d].profile_index
        /\ hasTls => pick # DomainStateMut(tlsState[d], idx).profile_index
        /\ ~hasTls => (idx = 1 /\ pick = 1)
        /\ fpCache' = IF hasFingerprint THEN Invalidate(fpCache, d) ELSE fpCache
        /\ fpUsed' = IF hasFingerprint
                     THEN [ fpUsed EXCEPT ![d].resetFrom = fpUsed[d].fp ]
                     ELSE fpUsed
        /\ tlsState' = IF hasTls
                       THEN [ tlsState EXCEPT ![d] =
                                RotateProfile(@, Len(tlsProfiles), idx, pick) ]
                       ELSE tlsState
        /\ tlsSeen' = IF hasTls THEN [ tlsSeen EXCEPT ![d] = CountRotation(@) ] ELSE tlsSeen
        /\ evLast' = [ EvNoCall EXCEPT !.op = "plan", !.domain = d,
                                       !.fingerprint_reset = hasFingerprint,
                                       !.tls_rotated = hasTls ]
        /\ UNCHANGED << fpLevel, fpGlobal, fpIssued, tlsInterval, tlsProfiles,
                        outsideEvasion >>

NextEvasion ==
    \/ EvGenerate
    \/ EvCurrentProfile
    \/ EvRotateProfile
    \/ EvAddCustomProfile
    \/ EvPlan

\* --------------------------------------------- anti-detection cooldown
\* Largest AntiDetectionConfig.failure_cooldown in ticks.
MaxCooldown == 2
\* Last instant of the anti-detection clock.
MaxClock == 3
\* Requests made on the host.
MaxRequests == 2

\* DomainAntiDetection.cooldown_until = None
NoCooldown == -1
\* AntiDetectionContext.delay_hint = None
NoHint == -1
\* record_response: capacity of rolling_latency
RollingLatencyLimit == 32

CdRequests == 1..MaxRequests

\* AntiDetectionConfig: durations in ticks.
CdConfigs ==
    [ failure_cooldown : 0..MaxCooldown,
      cooldown : {1},
      burst_window : {1},
      max_requests_per_window : {0, 1} ]

\* Statuses of the responses recorded.
CdStatuses == {200, 499, 500, 503}

\* DomainAntiDetection::default (the fingerprint salt only feeds header
\* values); rolling_latency is kept as its length.
CdNewState ==
    [ recent_requests |-> <<>>, failure_streak |-> 0, cooldown_until |-> NoCooldown,
      rolling_latency |-> 0 ]

\* prune_old_requests: pop the front while it is older than now - window.
RECURSIVE PruneOldRequests(_, _)
PruneOldRequests(recent, cutoff) ==
    IF recent # <<>> /\ Head(recent) < cutoff
    THEN PruneOldRequests(Tail(recent), cutoff)
    ELSE recent

\* DefaultAntiDetection::prepare_request on the timing side (push, burst limit,
\* cooldown): the new state and the context's delay_hint.  Header jitter and
\* noise headers carry no timing.
PrepareRequest(st, cfg, now) ==
    LET recent == PruneOldRequests(Append(st.recent_requests, now), now - cfg.burst_window)
        burst == IF Len(recent) > cfg.max_requests_per_window THEN cfg.cooldown ELSE NoHint
    IN  IF st.cooldown_until = NoCooldown
        THEN [ state |-> [ st EXCEPT !.recent_requests = recent ], hint |-> burst ]
        ELSE IF now < st.cooldown_until
        THEN [ state |-> [ st EXCEPT !.recent_requests = recent ],
               hint |-> IF burst = NoHint THEN st.cooldown_until - now
                        ELSE Max(burst, st.cooldown_until - now) ]
        ELSE [ state |-> [ st EXCEPT !.recent_requests = recent,
                                     !.cooldown_until = NoCooldown ],
               hint |-> burst ]

\* DefaultAntiDetection::record_response
RecordResponse(st, cfg, status, now) ==
    [ st EXCEPT
        !.failure_streak = IF status < 500 THEN 0 ELSE SaturatingIncU8(@),
        !.cooldown_until = IF status < 500 THEN @ ELSE now + cfg.failure_cooldown,
        !.rolling_latency = TrimThenPush(@, RollingLatencyLimit) ]

\* Faulty variant: the delay hint is not taken up.
EffectiveDelayIgnoringHint(delay, hint) ==
    delay

\* request(): the adaptive delay, raised to the delay hint when that is longer.
EffectiveDelay(delay, hint) ==
    IF hint # NoHint /\ hint > delay THEN hint ELSE delay

CdIdleRequest ==
    [ phase |-> "idle", prepared_at |-> 0, delay |-> 0, wake |-> 0, owed |-> NoCooldown,
      sent_at |-> 0 ]

CdNoCall == [ op |-> "none", status |-> 0, at |-> 0, until |-> NoCooldown ]

\* DefaultAntiDetection::new with one of the configurations; no request made.
CdNew(cfgs) ==
    /\ cdCfg \in cfgs
    /\ cdNow = 0
    /\ cdState = CdNewState
    /\ cdReqs = [ r \in CdRequests |-> CdIdleRequest ]
    /\ cdLast = CdNoCall

CdInit == CdNew(CdConfigs)

\* The layer before it is exercised on its own.
CdIdle == CdNew({ c \in CdConfigs : c.failure_cooldown = 0 /\ c.max_requests_per_window = 0 })

\* What a step of the layer exercised on its own leaves alone.
outsideCooldown ==
    << requestVars, proxyVars, detectorVars, feedbackVars, mlVars, accessVars,
       evasionVars, timingVars,
       executorVars, headerVars, mitigationVars >>

\* request(): prepare_request, then the delay hint is merged into the adaptive
\* delay (0 when adaptive timing is off); the task suspends on the client pool.
\* owed is the cooldown-until of the failures recorded so far.
CdPrepare(r) ==
    /\ cdReqs[r].phase = "idle"
    /\ \E d \in 0..MaxWait :
        LET got == PrepareRequest(cdState, cdCfg, cdNow)
        IN  /\ cdState' = got.state
            /\ cdReqs' = [ cdReqs EXCEPT ![r] =
                             [ CdIdleRequest EXCEPT !.phase = "client",
                                                    !.prepared_at = cdNow,
                                                    !.delay = EffectiveDelay(d, got.hint),
                                                    !.owed = cdLast.until ] ]
    /\ UNCHANGED << cdCfg, cdNow, cdLast, outsideCooldown >>

\* request(): the client is handed out; a positive delay is slept from now on,
\* else the request is sent at once.
CdAcquire(r) ==
    /\ cdReqs[r].phase = "client"
    /\ cdReqs' = [ cdReqs EXCEPT ![r] =
                     IF cdReqs[r].delay > 0
                     THEN [ @ EXCEPT !.phase = "sleep", !.wake = cdNow + cdReqs[r].delay ]
                     ELSE [ @ EXCEPT !.phase = "sent", !.sent_at = cdNow ] ]
    /\ UNCHANGED << cdCfg, cdNow, cdState, cdLast, outsideCooldown >>

\* request(): sleep(delay) is over, the request is sent.
CdSend(r) ==
    /\ cdReqs[r].phase = "sleep"
    /\ cdNow >= cdReqs[r].wake
    /\ cdReqs' = [ cdReqs EXCEPT ![r] = [ @ EXCEPT !.phase = "sent", !.sent_at = cdNow ] ]
    /\ UNCHANGED << cdCfg, cdNow, cdState, cdLast, outsideCooldown >>

\* record_outcome: the response of a sent request is recorded.
CdRecord(r) ==
    /\ cdReqs[r].phase = "sent"
    /\ \E status \in CdStatuses :
        /\ cdState' = RecordResponse(cdState, cdCfg, status, cdNow)
        /\ cdLast' = [ op |-> "record", status |-> status, at |-> cdNow,
                       until |-> IF status < 500 THEN cdLast.until
                                 ELSE Max(cdLast.until, cdNow + cdCfg.failure_cooldown) ]
    /\ cdReqs' = [ cdReqs EXCEPT ![r].phase = "done" ]
    /\ UNCHANGED << cdCfg, cdNow, outsideCooldown >>

\* Time passes.
CdTick ==
    /\ cdNow < MaxClock
    /\ cdNow' = cdNow + 1
    /\ UNCHANGED << cdCfg, cdState, cdReqs, cdLast, outsideCooldown >>

NextCooldown ==
    \/ \E r \in CdRequests : CdPrepare(r)
    \/ \E r \in CdRequests : CdAcquire(r)
    \/ \E r \in CdRequests : CdSend(r)
    \/ \E r \in CdRequests : CdRecord(r)
    \/ CdTick

\* ----------------------------------------------------- adaptive timing
\* Outcomes recorded by the timing layer.
MaxTimingOutcomes == 1

\* Durations are milliseconds, factors and rates are thousandths; products are
\* divided back by Thousandth, truncating where f32 rounds.
BehaviorProfiles == {"Casual", "Focused", "Research", "Mobile"}

\* DefaultAdaptiveTiming::new: the four TimingProfile envelopes.
TimingProfileOf(profile) ==
    CASE profile = "Casual" ->
            [ base_delay |-> 1500, min_delay |-> 500, max_delay |-> 3000,
              variance_factor |-> 400, success_rate_threshold |-> 800 ]
      [] profile = "Focused" ->
            [ base_delay |-> 900, min_delay |-> 250, max_delay |-> 2000,
              variance_factor |-> 300, success_rate_threshold |-> 850 ]
      [] profile = "Research" ->
            [ base_delay |-> 2500, min_delay |-> 1000, max_delay |-> 6000,
              variance_factor |-> 600, success_rate_threshold |-> 700 ]
      [] OTHER ->
            [ base_delay |-> 1200, min_delay |-> 400, max_delay |-> 3000,
              variance_factor |-> 400, success_rate_threshold |-> 750 ]

RequestKinds == {"Get", "Post", "Delete", "Head"}

\* RequestKind::delay_multiplier
DelayMultiplier(kind) ==
    CASE kind = "Post" -> 1350
      [] kind = "Delete" -> 900
      [] kind = "Head" -> 600
      [] OTHER -> 1000

\* f32::clamp
ClampValue(value, lo, hi) == IF value < lo THEN lo ELSE IF value > hi THEN hi ELSE value

\* Faulty variant: the value is bounded from below only.
TimingProfileClampFromBelow(profile, value) ==
    Max(value, profile.min_delay)

\* TimingProfile::clamp
TimingProfileClamp(profile, value) ==
    ClampValue(value, profile.min_delay, profile.max_delay)

\* DomainTimingState.optimal_timing = None
NoOptimal == -1

\* DomainTimingState::default; last_request is kept as whether it is set,
\* recent_delays as its length.
DomainTimingStateDefault ==
    [ success_rate |-> 1000, consecutive_failures |-> 0, average_response_time |-> 1000,
      optimal_timing |-> NoOptimal, last_request |-> FALSE, recent_delays |-> 0 ]

\* The random draws and the clock readings of one calculate_delay: the ends of
\* each range.
TimingDraws(profile) ==
    [ variance : {1000 - profile.variance_factor, 1000 + profile.variance_factor},
      reading_speed : {200, 300},
      processing : {500, 2000},
      reaction_time : {150, 400},
      distraction : {0, 60000},
      circadian_base : {200, 1000},
      circadian_noise : {850, 1150},
      elapsed : {0, 1000} ]

\* DefaultAdaptiveTiming::apply_human_jitter
ApplyHumanJitter(delay, profile, content_length, draw) ==
    LET words == Max(content_length \div 5, 1)
        reading_time == (words * 60000) \div draw.reading_speed
        read == IF content_length > 500
                THEN Max(delay, reading_time + draw.processing)
                ELSE delay
    IN  TimingProfileClamp(profile, read + draw.reaction_time + draw.distraction)

\* DefaultAdaptiveTiming::circadian_multiplier
CircadianMultiplier(draw) == (draw.circadian_base * draw.circadian_noise) \div Thousandth

\* DefaultAdaptiveTiming::calculate_delay: the delay returned.
CalculateDelay(profile, state, kind, content_length, draw) ==
    LET based == (profile.base_delay * DelayMultiplier(kind)) \div Thousandth
        varied == (based * draw.variance) \div Thousandth
        rated == IF state.success_rate < profile.success_rate_threshold
                 THEN (varied * (Thousandth
                          + Max(profile.success_rate_threshold - state.success_rate, 50)))
                      \div Thousandth
                 ELSE varied
        penalised == IF state.consecutive_failures > 0
                     THEN (rated * (Thousandth + state.consecutive_failures * 200))
                          \div Thousandth
                     ELSE rated
        blended == IF state.optimal_timing # NoOptimal
                   THEN (penalised * 800) \div Thousandth
                        + (state.optimal_timing * 200) \div Thousandth
                   ELSE penalised
        responded == (blended * ClampValue(state.average_response_time, 600, 1500))
                     \div Thousandth
        jittered == ApplyHumanJitter(responded, profile, content_length, draw)
        circadian == Max(CircadianMultiplier(draw), 200)
        paced == (jittered * Thousandth) \div circadian
        min_spacing == (profile.min_delay * 600) \div Thousandth
        spaced == IF state.last_request /\ min_spacing >= draw.elapsed
                  THEN Max(paced, min_spacing - draw.elapsed)
                  ELSE paced
    IN  TimingProfileClamp(profile, spaced)

\* DefaultAdaptiveTiming::record_outcome on the domain's state.
RecordOutcome(state, success, response_time, applied_delay) ==
    LET applied == Min(applied_delay, 10000)
    IN  [ state EXCEPT
            !.success_rate = (900 * @ + 100 * (IF success THEN 1000 ELSE 0)) \div Thousandth,
            !.consecutive_failures = IF success THEN 0 ELSE Min(SaturatingIncU8(@), 5),
            !.optimal_timing = IF ~success THEN @
                               ELSE IF @ = NoOptimal THEN applied
                               ELSE (900 * @ + 100 * applied) \div Thousandth,
            !.average_response_time = (900 * @ + 100 * Min(response_time, 30000))
                                      \div Thousandth,
            !.recent_delays = TrimThenPush(@, 32) ]

TmNoCall == [ op |-> "none", profile |-> "Casual", delay |-> 0 ]

\* DefaultAdaptiveTiming::new; the one host has no state yet (its first use
\* creates the default state).
TmIdle ==
    /\ tmProfile = "Casual"
    /\ tmState = DomainTimingStateDefault
    /\ tmOutcomes = 0
    /\ tmLast = TmNoCall

TmInit == TmIdle

\* What a step of the timing layer exercised on its own leaves alone.
outsideTiming ==
    << requestVars, proxyVars, detectorVars, feedbackVars, mlVars, accessVars,
       evasionVars, cooldownVars,
       executorVars, headerVars, mitigationVars >>

\* set_behavior_profile: every BehaviorProfile is in the table.
TmSetBehaviorProfile(profile) ==
    /\ tmProfile # profile
    /\ tmProfile' = profile
    /\ tmLast' = [ op |-> "profile", profile |-> profile, delay |-> 0 ]
    /\ UNCHANGED << tmState, tmOutcomes, outsideTiming >>

\* calculate_delay(domain, request)
TmCalculateDelay(kind, content_length) ==
    /\ \E draw \in TimingDraws(TimingProfileOf(tmProfile)) :
        \* draws and readings the call does not make or use are held fixed
        /\ content_length <= 500 => (draw.reading_speed = 200 /\ draw.processing = 500)
        /\ ~tmState.last_request => draw.elapsed = 0
        /\ tmLast' = [ op |-> "delay", profile |-> tmProfile,
                      delay |-> CalculateDelay(TimingProfileOf(tmProfile), tmState, kind,
                                               content_length, draw) ]
    /\ tmState' = [ tmState EXCEPT !.last_request = TRUE ]
    /\ UNCHANGED << tmProfile, tmOutcomes, outsideTiming >>

\* record_outcome(domain, outcome); global_history is kept as its length.
TmRecordOutcome(success, response_time, applied_delay) ==
    /\ tmOutcomes < MaxTimingOutcomes
    /\ tmState' = RecordOutcome(tmState, success, response_time, applied_delay)
    /\ tmOutcomes' = TrimThenPush(tmOutcomes, 256)
    /\ tmLast' = [ op |-> "outcome", profile |-> tmProfile, delay |-> 0 ]
    /\ UNCHANGED << tmProfile, outsideTiming >>

NextTiming ==
    \/ \E profile \in BehaviorProfiles : TmSetBehaviorProfile(profile)
    \/ \E kind \in RequestKinds, content_length \in {500, 501} :
          TmCalculateDelay(kind, content_length)
    \/ \E success \in BOOLEAN, response_time \in {200, 40000}, applied_delay \in {0, 20000} :
          TmRecordOutcome(success, response_time, applied_delay)

\* ================================================= submission and executor
\* Longest list of hidden fields of a challenge form.
MaxFields == 2

\* Form field names and values: the answer computed by the solver or a value
\* read from the page.
FieldKeys == {"jschl_answer", "r"}
FieldValues == {"computed", "page"}
Absent == "absent"

\* Vec<(String, String)> of at most n pairs.
FieldLists(n) == UNION { [ 1..k -> FieldKeys \X FieldValues ] : k \in 0..n }

\* HashMap::from_iter: the pairs are inserted in order, an insert of a key the
\* map already holds replaces its value.
RECURSIVE CollectFields(_, _, _)
CollectFields(pairs, i, map) ==
    IF i > Len(pairs)
    THEN map
    ELSE CollectFields(pairs, i + 1, [ map EXCEPT ![pairs[i][1]] = pairs[i][2] ])

\* A Url by its components; the path is its list of segments.
Url(scheme, host, path) == [ scheme |-> scheme, host |-> host, path |-> path ]
NoHost == ""
NoUrl == Url("", NoHost, <<>>)

\* Url::has_host
HasHost(url) == url.host # NoHost

\* A string handed to Url::parse or Url::join, by its components: scheme ("" when
\* it has none), authority (NoAuthority when it has no "//" part, "" when the
\* part is empty), whether the path starts with "/", and the path segments.
NoAuthority == "none"
UrlRef(scheme, authority, rooted, path) ==
    [ scheme |-> scheme, authority |-> authority, rooted |-> rooted, path |-> path ]

UrlOk(url) == [ ok |-> TRUE, url |-> url ]
UrlErr == [ ok |-> FALSE, url |-> NoUrl ]

\* Url::parse: a string without scheme is RelativeUrlWithoutBase, an empty
\* authority is EmptyHost.
UrlParse(ref) ==
    IF ref.scheme = "" \/ ref.authority = ""
    THEN UrlErr
    ELSE UrlOk(Url(ref.scheme,
                   IF ref.authority = NoAuthority THEN NoHost ELSE ref.authority,
                   ref.path))

\* Url::join on a hierarchical base: an absolute reference stands for itself,
\* "//host/path" keeps the scheme, "/path" keeps the host, any other path
\* replaces the last segment of the base.
UrlJoin(base, ref) ==
    IF ref.scheme # "" THEN UrlParse(ref)
    ELSE IF ref.authority = "" THEN UrlErr
    ELSE IF ref.authority # NoAuthority
         THEN UrlOk(Url(base.scheme, ref.authority, ref.path))
    ELSE IF ref.rooted THEN UrlOk(Url(base.scheme, base.host, ref.path))
    ELSE UrlOk(Url(base.scheme, base.host,
                   SubSeq(base.path, 1, Len(base.path) - 1) \o ref.path))

\* URL of the challenge page and of the request that met it.
ChallengePageUrl == Url("https", "a.io", <<"cdn", "page">>)
OriginalUrl == Url("https", "a.io", <<"data">>)

\* Form actions of a challenge page: "/cdn/submit" and the unusable "//".
FormActions == { UrlRef("", NoAuthority, TRUE, <<"cdn", "submit">>),
                 UrlRef("", "", FALSE, <<>>) }

\* ChallengeSubmission, and the value before one is built.
NoSubmissionBuilt ==
    [ built |-> FALSE, method |-> "", url |-> NoUrl,
      form_fields |-> [ k \in FieldKeys |-> Absent ], referer |-> NoUrl, wait |-> 0 ]

\* IuamChallengeBlueprint::to_submission: the hidden fields are appended to
\* the payload and the list is collected into the form map; the action is
\* joined onto the base URL.  An action that cannot be joined is InvalidAction.
ToSubmission(action, hidden_fields, base_url, payload) ==
    LET form_fields == CollectFields(payload \o hidden_fields, 1,
                                     [ k \in FieldKeys |-> Absent ])
        submit_url == UrlJoin(base_url, action)
    IN  IF submit_url.ok
        THEN [ NoSubmissionBuilt EXCEPT !.built = TRUE, !.method = "POST",
                                        !.url = submit_url.url,
                                        !.form_fields = form_fields ]
        ELSE NoSubmissionBuilt

\* Location headers of the response to the form POST: none, a value that is
\* not visible ASCII, "https://b.io/done", "https://", "mailto:ops", "/done",
\* "done", "//b.io/done" and "//".
NoLocation == [ present |-> FALSE, readable |-> FALSE, ref |-> UrlRef("", NoAuthority, FALSE, <<>>) ]
LocationText(ref) == [ present |-> TRUE, readable |-> TRUE, ref |-> ref ]
LocationHeaders ==
    { NoLocation,
      [ NoLocation EXCEPT !.present = TRUE ],
      LocationText(UrlRef("https", "b.io", TRUE, <<"done">>)),
      LocationText(UrlRef("https", "", FALSE, <<>>)),
      LocationText(UrlRef("mailto", NoAuthority, FALSE, <<"ops">>)),
      LocationText(UrlRef("", NoAuthority, TRUE, <<"done">>)),
      LocationText(UrlRef("", NoAuthority, FALSE, <<"done">>)),
      LocationText(UrlRef("", "b.io", TRUE, <<"done">>)),
      LocationText(UrlRef("", "", FALSE, <<>>)) }

\* StatusCode::is_redirection, as to_challenge_response sets is_redirect.
IsRedirection(status) == status \in 300..399

\* ChallengeHttpResponse of the form POST.
NoFirstResponse ==
    [ status |-> 0, is_redirect |-> FALSE, location |-> NoLocation, url |-> NoUrl ]

\* ChallengeHttpResponse::location: the header when it is there and to_str
\* accepts it.
Location(response) ==
    IF response.location.present /\ response.location.readable
    THEN [ some |-> TRUE, ref |-> response.location.ref ]
    ELSE [ some |-> FALSE, ref |-> NoLocation.ref ]

\* Faulty variant: a Location that is no absolute URL is not joined.
ResolveRedirectAbsoluteOnly(first_response, original_url) ==
    LET location == Location(first_response)
        absolute == UrlParse(location.ref)
    IN  IF location.some /\ absolute.ok /\ HasHost(absolute.url)
        THEN absolute.url
        ELSE original_url

\* resolve_redirect
ResolveRedirect(first_response, original_url) ==
    LET location == Location(first_response)
        absolute == UrlParse(location.ref)
        joined == UrlJoin(first_response.url, location.ref)
    IN  IF ~location.some THEN original_url
        ELSE IF absolute.ok /\ HasHost(absolute.url) THEN absolute.url
        ELSE IF joined.ok THEN joined.url
        ELSE original_url

\* Faulty variant: every response of status 300 and above is followed.
AfterFormResponseFollowingErrors(first_response) ==
    IF first_response.status = 400 THEN "invalid_answer"
    ELSE IF first_response.status < 300 THEN "return"
    ELSE "follow"

\* execute_challenge_submission on the response to the form POST: 400 is
\* InvalidAnswer, a response that is no redirect is returned, a redirect is
\* followed.
AfterFormResponse(first_response) ==
    IF first_response.status = 400 THEN "invalid_answer"
    ELSE IF ~first_response.is_redirect THEN "return"
    ELSE "follow"

\* OriginalRequest: a GET without body and a POST with body and a Referer of
\* its own.
NoBody == "none"
OriginalRequests ==
    { [ method |-> "GET", url |-> OriginalUrl, referer |-> NoUrl,
        accept |-> "*/*", body |-> NoBody ],
      [ method |-> "POST", url |-> OriginalUrl,
        referer |-> Url("https", "old.io", <<>>),
        accept |-> "text/html", body |-> "payload" ] }

\* Blueprint and payload before they are parsed out of a page.
ExNoInput ==
    [ parsed |-> FALSE, action |-> UrlRef("", NoAuthority, FALSE, <<>>),
      hidden_fields |-> <<>>, payload |-> <<>> ]

ExNew(originals) ==
    /\ exIn = ExNoInput
    /\ exSub = NoSubmissionBuilt
    /\ exOrig \in originals
    /\ exPc = "page"
    /\ exSleep = 0
    /\ exSlept = 0
    /\ exCalls = <<>>
    /\ exFirst = NoFirstResponse
    /\ exRet = "none"

ExInit == ExNew(OriginalRequests)

ExIdle == ExNew({ o \in OriginalRequests : o.method = "GET" })

outsideExecutor ==
    << requestVars, proxyVars, detectorVars, feedbackVars, mlVars, accessVars,
       evasionVars, cooldownVars, timingVars, headerVars, mitigationVars >>

\* The solver parses the blueprint out of the page and computes its payload.
ExParse ==
    /\ exPc = "page"
    /\ \E action \in FormActions, hidden_fields \in FieldLists(MaxFields),
          payload \in FieldLists(1) :
          exIn' = [ parsed |-> TRUE, action |-> action,
                    hidden_fields |-> hidden_fields, payload |-> payload ]
    /\ exPc' = "parsed"
    /\ UNCHANGED << exSub, exOrig, exSleep, exSlept, exCalls, exFirst, exRet,
                    outsideExecutor >>

\* JavascriptV1Solver::solve from to_submission on: blueprint and payload are
\* consumed, the wait read from the page and the Referer are set.
ExToSubmission ==
    /\ exPc = "parsed"
    /\ LET submission == ToSubmission(exIn.action, exIn.hidden_fields,
                                      ChallengePageUrl, exIn.payload)
       IN  IF submission.built
           THEN /\ \E wait \in 0..MaxWait :
                      exSub' = [ submission EXCEPT !.wait = wait,
                                                   !.referer = ChallengePageUrl ]
                /\ exPc' = "solved"
                /\ exRet' = exRet
           ELSE /\ exSub' = exSub
                /\ exPc' = "returned"
                /\ exRet' = "InvalidAction"
    /\ exIn' = ExNoInput
    /\ UNCHANGED << exOrig, exSleep, exSlept, exCalls, exFirst, outsideExecutor >>

\* client.send_form as the executor calls it.
FormCall(submission, slept) ==
    [ kind |-> "send_form", method |-> submission.method, url |-> submission.url,
      referer |-> submission.referer, accept |-> Absent,
      form_fields |-> submission.form_fields, body |-> NoBody, slept |-> slept ]

\* client.send_with_body as the executor calls it: the original request with
\* the Referer replaced.
ReplayCall(original, first_response, slept) ==
    [ kind |-> "send_with_body", method |-> original.method,
      url |-> ResolveRedirect(first_response, original.url),
      referer |-> first_response.url, accept |-> original.accept,
      form_fields |-> [ k \in FieldKeys |-> Absent ], body |-> original.body,
      slept |-> slept ]

\* execute_challenge_submission up to its first await: the sleep when the
\* submission asks for one, else the form POST.
ExExecute ==
    /\ exPc = "solved"
    /\ IF exSub.wait > 0
       THEN /\ exSleep' = exSub.wait
            /\ exPc' = "sleeping"
            /\ exCalls' = exCalls
       ELSE /\ exCalls' = Append(exCalls, FormCall(exSub, exSlept))
            /\ exPc' = "send_form"
            /\ exSleep' = exSleep
    /\ UNCHANGED << exIn, exSub, exOrig, exSlept, exFirst, exRet, outsideExecutor >>

\* One tick of the sleep passes.
ExTick ==
    /\ exPc = "sleeping"
    /\ exSleep > 0
    /\ exSleep' = exSleep - 1
    /\ exSlept' = exSlept + 1
    /\ UNCHANGED << exIn, exSub, exOrig, exPc, exCalls, exFirst, exRet, outsideExecutor >>

\* The sleep is over: the form is posted.
ExWaitElapsed ==
    /\ exPc = "sleeping"
    /\ exSleep = 0
    /\ exCalls' = Append(exCalls, FormCall(exSub, exSlept))
    /\ exPc' = "send_form"
    /\ UNCHANGED << exIn, exSub, exOrig, exSleep, exSlept, exFirst, exRet, outsideExecutor >>

\* send_form returned: a transport error, or a response of the submission URL
\* that is refused, returned or followed.
ExFormResponse ==
    /\ exPc = "send_form"
    /\ \/ /\ exRet' = "ClientError"
          /\ exPc' = "returned"
          /\ UNCHANGED << exFirst, exCalls >>
       \/ \E status \in FormStatuses, location \in LocationHeaders :
             LET first_response == [ status |-> status,
                                     is_redirect |-> IsRedirection(status),
                                     location |-> location, url |-> exSub.url ]
                 verdict == AfterFormResponse(first_response)
             IN  /\ exFirst' = first_response
                 /\ IF verdict = "follow"
                    THEN /\ exCalls' = Append(exCalls,
                                              ReplayCall(exOrig, first_response, exSlept))
                         /\ exPc' = "send_with_body"
                         /\ exRet' = exRet
                    ELSE /\ exCalls' = exCalls
                         /\ exPc' = "returned"
                         /\ exRet' = IF verdict = "return" THEN "first_response"
                                     ELSE "InvalidAnswer"
    /\ UNCHANGED << exIn, exSub, exOrig, exSleep, exSlept, outsideExecutor >>

\* send_with_body returned: a transport error or the final response.
ExReplayResponse ==
    /\ exPc = "send_with_body"
    /\ exRet' \in {"ClientError", "follow_response"}
    /\ exPc' = "returned"
    /\ UNCHANGED << exIn, exSub, exOrig, exSleep, exSlept, exCalls, exFirst,
                    outsideExecutor >>

NextExecutor ==
    \/ ExParse
    \/ ExToSubmission
    \/ ExExecute
    \/ ExTick
    \/ ExWaitElapsed
    \/ ExFormResponse
    \/ ExReplayResponse

\* ====================================================== prepared headers
\* The headers prepare_request hands to the send: User-Agent, Accept-Language
\* and two of the sec-fetch headers anti-detection may rotate.
HeaderNames == {"user-agent", "accept-language", "sec-fetch-site", "sec-fetch-mode"}

\* TARGET_HEADERS of randomize_headers, as far as they are modelled.
TargetHeaders == {"accept-language", "sec-fetch-site", "sec-fetch-mode"}

\* What random_header_value produces.
RandomValue == "same-origin;sid=7f"

\* base_headers_http of the user-agent profile.
BaseHeaders ==
    [ h \in HeaderNames |->
        CASE h = "user-agent"      -> "profile-agent"
          [] h = "accept-language" -> "en-US,en;q=0.9"
          [] OTHER                 -> Absent ]

\* BrowserFingerprint: user_agent and accept_language of a template.
Fingerprints ==
    { [ user_agent |-> "chrome-120", accept_language |-> "en-US,en;q=0.9" ],
      [ user_agent |-> "chrome-120", accept_language |-> "en-GB,en;q=0.8" ],
      [ user_agent |-> "firefox-121", accept_language |-> "fr-FR,fr;q=0.7" ] }

\* DefaultAntiDetection::randomize_headers: every target header the draw
\* selects gets a random value, then the context's user agent, when it has
\* one, is written to User-Agent.
RandomizeHeaders(randomize, headers, user_agent, drawn) ==
    IF ~randomize
    THEN headers
    ELSE [ h \in HeaderNames |->
             IF h = "user-agent" /\ user_agent # Absent THEN user_agent
             ELSE IF h \in drawn THEN RandomValue
             ELSE headers[h] ]

\* CloudScraper::prepare_request on the headers: the anti-detection context is
\* built from the base headers, the fingerprint is written to `headers` and its
\* user agent to the context, and when anti-detection is on `headers` is
\* replaced by the headers of the context.
PrepareHeaders(base, spoofing, fingerprint, anti_detection, drawn) ==
    LET ctx_headers == base
        ctx_user_agent == IF spoofing THEN fingerprint.user_agent ELSE Absent
        headers == IF spoofing
                   THEN [ base EXCEPT !["user-agent"] = fingerprint.user_agent,
                                      !["accept-language"] = fingerprint.accept_language ]
                   ELSE base
    IN  IF anti_detection
        THEN RandomizeHeaders(TRUE, ctx_headers, ctx_user_agent, drawn)
        ELSE headers

HdNoCall ==
    [ prepared |-> FALSE, drawn |-> {}, user_agent |-> Absent,
      accept_language |-> Absent, headers |-> BaseHeaders ]

HdNew(spoofings, anti_detections, fingerprints) ==
    /\ hdSpoofing \in spoofings
    /\ hdAnti \in anti_detections
    /\ hdFingerprint \in fingerprints
    /\ hdLast = HdNoCall

HdInit == HdNew(BOOLEAN, BOOLEAN, Fingerprints)

HdIdle == HdNew({TRUE}, {TRUE}, { f \in Fingerprints : f.user_agent = "firefox-121" })

outsideHeaders ==
    << requestVars, proxyVars, detectorVars, feedbackVars, mlVars, accessVars,
       evasionVars, cooldownVars, timingVars, executorVars, mitigationVars >>

\* prepare_request for one send; the fingerprint of the domain is the cached
\* one.
HdPrepare ==
    /\ \E drawn \in SUBSET TargetHeaders :
          hdLast' = [ prepared |-> TRUE, drawn |-> drawn,
                      user_agent |-> hdFingerprint.user_agent,
                      accept_language |-> hdFingerprint.accept_language,
                      headers |-> PrepareHeaders(BaseHeaders, hdSpoofing, hdFingerprint,
                                                 hdAnti, drawn) ]
    /\ UNCHANGED << hdSpoofing, hdAnti, hdFingerprint, outsideHeaders >>

\* Bot management invalidated the fingerprint: the next generate_for draws a
\* new one.
HdRegenerate ==
    /\ hdSpoofing
    /\ \E f \in Fingerprints \ {hdFingerprint} : hdFingerprint' = f
    /\ UNCHANGED << hdSpoofing, hdAnti, hdLast, outsideHeaders >>

NextHeaders == HdPrepare \/ HdRegenerate

\* =================================================== mitigation handlers
\* Most calls of one kind the recorder, the pool, the fingerprint generator
\* or the TLS manager receive.
MaxEffects == 1

\* A response handed to a handler: whether it is a Cloudflare response, its
\* status, what its body matches, and whether its URL has a host.
MtResponses ==
    [ cf : BOOLEAN, status : {403, 429}, sig : {"none", "1015", "1020", "1010"},
      host : BOOLEAN ]

\* Calls received so far by the FailureRecorder (record_failure), the
\* ProxyPool (report_failure, next_proxy), the FingerprintManager
\* (invalidate) and the TlsProfileManager (rotate_profile).
NoEffects ==
    [ recorded |-> 0, reported |-> 0, drawn |-> 0, invalidated |-> 0, rotated |-> 0 ]

\* RateLimitHandler::plan: NotRateLimited unless the signature matches; the
\* failure is recorded when a recorder is given and the URL has a host.
RateLimitHandlerPlan(response, state_recorder, effects) ==
    IF ~IsRateLimited(response)
    THEN [ ret |-> "NotRateLimited", effects |-> effects ]
    ELSE [ ret |-> "Ok",
           effects |-> IF state_recorder /\ response.host
                       THEN [ effects EXCEPT !.recorded = @ + 1 ]
                       ELSE effects ]

\* AccessDeniedHandler::plan, as far as the calls on the pool go.
AccessDeniedHandlerCalls(response, proxy_pool, current_proxy, effects) ==
    IF ~IsAccessDenied(response)
    THEN [ ret |-> "NotAccessDenied", effects |-> effects ]
    ELSE [ ret |-> "Ok",
           effects |-> IF proxy_pool
                       THEN [ effects EXCEPT
                                !.reported = IF current_proxy THEN @ + 1 ELSE @,
                                !.drawn = @ + 1 ]
                       ELSE effects ]

\* Faulty variant: the failure is recorded before the host is looked at.
BotManagementHandlerPlanRecordingFirst(response, fingerprint, tls_manager, state_recorder, effects) ==
    LET recorded == IF state_recorder /\ IsBotManagement(response)
                    THEN [ effects EXCEPT !.recorded = @ + 1 ]
                    ELSE effects
    IN  IF ~IsBotManagement(response)
        THEN [ ret |-> "NotBotManagement", effects |-> effects ]
        ELSE IF ~response.host
             THEN [ ret |-> "MissingHost", effects |-> recorded ]
             ELSE [ ret |-> "Ok",
                    effects |-> [ recorded EXCEPT
                                    !.invalidated = IF fingerprint THEN @ + 1 ELSE @,
                                    !.rotated = IF tls_manager THEN @ + 1 ELSE @ ] ]

\* BotManagementHandler::plan: NotBotManagement unless the signature matches,
\* MissingHost when the URL has no host; then the failure is recorded, the
\* fingerprint of the domain invalidated and its TLS profile rotated, each
\* when the component was handed in.
BotManagementHandlerPlan(response, fingerprint, tls_manager, state_recorder, effects) ==
    IF ~IsBotManagement(response)
    THEN [ ret |-> "NotBotManagement", effects |-> effects ]
    ELSE IF ~response.host
         THEN [ ret |-> "MissingHost", effects |-> effects ]
         ELSE [ ret |-> "Ok",
                effects |-> [ effects EXCEPT
                                !.recorded = IF state_recorder THEN @ + 1 ELSE @,
                                !.invalidated = IF fingerprint THEN @ + 1 ELSE @,
                                !.rotated = IF tls_manager THEN @ + 1 ELSE @ ] ]

\* The last plan() call: the handler, the response and what it returned.
MtNoCall ==
    [ kind |-> "none", ret |-> "none",
      response |-> [ cf |-> FALSE, status |-> 403, sig |-> "none", host |-> TRUE ] ]

MtInit == mtEffects = NoEffects /\ mtLast = MtNoCall

\* The handlers before they are exercised on their own.
MtIdle == MtInit

outsideMitigation ==
    << requestVars, proxyVars, detectorVars, feedbackVars, mlVars, accessVars,
       evasionVars, cooldownVars, timingVars, executorVars, headerVars >>

\* The components count no more than MaxEffects calls of a kind.
MtWithin(effects) == \A f \in DOMAIN effects : effects[f] <= MaxEffects

\* RateLimitHandler::plan is called, with or without a recorder.
MtRateLimit ==
    \E response \in MtResponses, state_recorder \in BOOLEAN :
        LET got == RateLimitHandlerPlan(response, state_recorder, mtEffects)
        IN  /\ MtWithin(got.effects)
            /\ mtEffects' = got.effects
            /\ mtLast' = [ kind |-> "RateLimit", ret |-> got.ret, response |-> response ]
            /\ UNCHANGED outsideMitigation

\* AccessDeniedHandler::plan is called, with or without a pool and a current
\* proxy.
MtAccessDenied ==
    \E response \in MtResponses, proxy_pool \in BOOLEAN, current_proxy \in BOOLEAN :
        LET got == AccessDeniedHandlerCalls(response, proxy_pool, current_proxy, mtEffects)
        IN  /\ MtWithin(got.effects)
            /\ mtEffects' = got.effects
            /\ mtLast' = [ kind |-> "AccessDenied", ret |-> got.ret, response |-> response ]
            /\ UNCHANGED outsideMitigation

\* BotManagementHandler::plan is called, with or without each component.
MtBotManagement ==
    \E response \in MtResponses, fingerprint \in BOOLEAN, tls_manager \in BOOLEAN :
        \E state_recorder \in BOOLEAN :
            LET got == BotManagementHandlerPlan(response, fingerprint, tls_manager,
                                                state_recorder, mtEffects)
            IN  /\ MtWithin(got.effects)
                /\ mtEffects' = got.effects
                /\ mtLast' = [ kind |-> "BotManagement", ret |-> got.ret,
                               response |-> response ]
                /\ UNCHANGED outsideMitigation

NextMitigation ==
    \/ MtRateLimit
    \/ MtAccessDenied
    \/ MtBotManagement

\* The learning, access-denied, evasion, cooldown and timing layers, the
\* executor, the header preparation and the mitigation handlers before they
\* are exercised.
ModulesIdle == MlIdle /\ AdIdle /\ EvIdle /\ CdIdle /\ TmIdle /\ ExIdle /\ HdIdle /\ MtIdle

\* Every component outside the request loop before it is exercised.
ComponentsIdle == PxIdle /\ DtIdle /\ FbIdle /\ ModulesIdle

\* No request is ever started.
RequestsIdle ==
    InitWith({ c \in Configs : c.requested = 1 /\ ~c.captcha_provider /\ c.proxies = <<>> },
             {}, {})

\* The proxy manager exercised on its own: any interleaving of next_proxy,
\* report_failure, report_success and the passing of time.
InitProxyManager == RequestsIdle /\ PxInit /\ DtIdle /\ FbIdle /\ ModulesIdle

SpecProxyManager == InitProxyManager /\ [][NextProxyManager]_vars

\* The detector exercised on its own: any interleaving of detect,
\* learn_from_outcome and add_adaptive_pattern.
InitDetector == RequestsIdle /\ PxIdle /\ DtInit /\ FbIdle /\ ModulesIdle

SpecDetector == InitDetector /\ [][NextDetector]_vars

\* The outcome bookkeeping exercised on its own: any sequence of successes
\* and failures of one host.
InitFeedback == RequestsIdle /\ PxIdle /\ DtIdle /\ FbInit /\ ModulesIdle

SpecFeedback == InitFeedback /\ [][NextFeedback]_vars

\* The detector fed a run of responses of one host: challenge pages and, at
\* will, one plain page that records nothing.
InitHistory == RequestsIdle /\ PxIdle /\ HsInit /\ FbIdle /\ ModulesIdle

SpecHistory == InitHistory /\ [][NextHistory]_vars

\* The learning layer exercised on its own: attempts recorded for two hosts
\* under every window size.
InitML ==
    RequestsIdle /\ PxIdle /\ DtIdle /\ FbIdle
        /\ MlInit /\ AdIdle /\ EvIdle /\ CdIdle /\ TmIdle /\ ExIdle /\ HdIdle /\ MtIdle

SpecML == InitML /\ [][NextML]_vars

\* The access-denied handler exercised on its own, with and without a proxy
\* pool, while time passes.
InitAccessDenied ==
    RequestsIdle /\ PxInit /\ DtIdle /\ FbIdle
        /\ MlIdle /\ AdInit /\ EvIdle /\ CdIdle /\ TmIdle /\ ExIdle /\ HdIdle /\ MtIdle

SpecAccessDenied == InitAccessDenied /\ [][NextAccessDenied]_vars

\* The fingerprint generator, the TLS profile manager and the bot-management
\* handler exercised on their own.
InitEvasion ==
    RequestsIdle /\ PxIdle /\ DtIdle /\ FbIdle
        /\ MlIdle /\ AdIdle /\ EvInit /\ CdIdle /\ TmIdle /\ ExIdle /\ HdIdle /\ MtIdle

SpecEvasion == InitEvasion /\ [][NextEvasion]_vars

\* The anti-detection layer of one host: requests prepared, delayed and sent,
\* their responses recorded, while time passes.
InitCooldown ==
    RequestsIdle /\ PxIdle /\ DtIdle /\ FbIdle
        /\ MlIdle /\ AdIdle /\ EvIdle /\ CdInit /\ TmIdle /\ ExIdle /\ HdIdle /\ MtIdle

SpecCooldown == InitCooldown /\ [][NextCooldown]_vars

\* The timing layer of one host: delays calculated and outcomes recorded under
\* every behaviour profile.
InitTiming ==
    RequestsIdle /\ PxIdle /\ DtIdle /\ FbIdle
        /\ MlIdle /\ AdIdle /\ EvIdle /\ CdIdle /\ TmInit /\ ExIdle /\ HdIdle /\ MtIdle

SpecTiming == InitTiming /\ [][NextTiming]_vars

\* The solver's submission and its execution: every blueprint and payload,
\* every response to the form POST.
InitExecutor ==
    RequestsIdle /\ PxIdle /\ DtIdle /\ FbIdle
        /\ MlIdle /\ AdIdle /\ EvIdle /\ CdIdle /\ TmIdle /\ ExInit /\ HdIdle /\ MtIdle

SpecExecutor == InitExecutor /\ [][NextExecutor]_vars

\* The headers prepared for a send, with the fingerprint generator and
\* anti-detection switched on or off.
InitHeaders ==
    RequestsIdle /\ PxIdle /\ DtIdle /\ FbIdle
        /\ MlIdle /\ AdIdle /\ EvIdle /\ CdIdle /\ TmIdle /\ ExIdle /\ HdInit /\ MtIdle

SpecHeaders == InitHeaders /\ [][NextHeaders]_vars

\* The rate-limit, access-denied and bot-management handlers called on every
\* response, with and without the components they act on.
InitMitigation ==
    RequestsIdle /\ PxIdle /\ DtIdle /\ FbIdle
        /\ MlIdle /\ AdIdle /\ EvIdle /\ CdIdle /\ TmIdle /\ ExIdle /\ HdIdle /\ MtInit

SpecMitigation == InitMitigation /\ [][NextMitigation]_vars

\* One request at a time, every configuration, every response.
Init == InitWith(Configs, {"t1"}, Responses) /\ ComponentsIdle

Spec == Init /\ [][Next]_vars

\* Concurrent requests on one scraper.  The servers answer with one response
\* of each family (plain page, solvable challenge, captcha challenge, rate
\* limit, access denied).
ConcResponses ==
    { [ cf |-> FALSE, status |-> 200, sig |-> "none" ],
      [ cf |-> TRUE, status |-> 503, sig |-> "iuam_v1" ],
      [ cf |-> TRUE, status |-> 403, sig |-> "turnstile" ],
      [ cf |-> TRUE, status |-> 429, sig |-> "1015" ],
      [ cf |-> TRUE, status |-> 403, sig |-> "1020" ] }

ConcConfigs == { c \in Configs : c.captcha_provider /\ c.requested = 1 }

InitConc == InitWith(ConcConfigs, Tasks, ConcResponses) /\ ComponentsIdle

SpecConc == InitConc /\ [][Next]_vars

\* ================================================================== claims
FeedbackKinds == {"Ok", "ChallengeExecution", "Mitigation", "Unsupported", "Pipeline"}

\* ---------------------------------------------------------------------- C1
\* C1 as stated: counting every send made for a call (the dispatches of the
\* loop, the challenge form POST and the replay of the original request), a
\* call never makes more than max_challenge_attempts sends.
C1_EverySendWithinAttempts ==
    \A t \in Tasks : TotalSends(t) <= config.max_challenge_attempts

\* C1 amended: a call dispatches the caller's request at most
\* max_challenge_attempts times; executing a challenge submission adds at most
\* one form POST and at most one replay, so a call makes at most
\* max_challenge_attempts + 2 sends.
C1_RetryBound ==
    \A t \in Tasks :
        /\ sends[t].main <= config.max_challenge_attempts
        /\ sends[t].form <= 1
        /\ sends[t].replay <= sends[t].form
        /\ TotalSends(t) <= config.max_challenge_attempts + 2

\* A call that used every attempt and then executed a submission with replay.
C1_Witness ==
    \E t \in Tasks :
        /\ pc[t] = "done"
        /\ config.max_challenge_attempts = MaxCfgAttempts
        /\ sends[t].main = config.max_challenge_attempts
        /\ sends[t].form = 1
        /\ sends[t].replay = 1

\* ---------------------------------------------------------------------- C2
\* C2: no task holds the coarse lock while it is suspended on a network
\* operation (a send, a body read, a captcha-provider solve) or on a sleep.
C2_LockNeverHeldAcrossWait ==
    \A t \in Tasks : innerLock = t => pc[t] \notin (NetworkPoints \cup SleepPoints)

\* ---------------------------------------------------------------------- C3
\* C3: whenever request() has returned after a response was handled (Ok for
\* NoChallenge or an executed submission, the error of a failed submission
\* execution, Mitigation, Unsupported, pipeline failure), the state manager,
\* the metrics, adaptive timing and anti-detection have recorded the outcome.
C3_FeedbackOnEveryOutcome ==
    \A t \in Tasks :
        (pc[t] = "done" /\ ret[t].kind \in FeedbackKinds)
            => {"state", "metrics", "timing", "anti"} \subseteq rec[t]

\* ---------------------------------------------------------------------- C4
\* C4: when every attempt of a call was answered with a mitigation plan that
\* asks for a retry, the call returns the Mitigation error carrying the plan of
\* the last response after exactly max_challenge_attempts dispatches, and
\* max_challenge_attempts is the requested count raised to at least 1.
C4_RetriesExhausted ==
    \A t \in Tasks :
        (pc[t] = "done" /\ result[t] = "Mitigation" /\ plan[t].should_retry)
            => /\ ret[t].kind = "Mitigation"
               /\ ret[t].plan = plan[t]
               /\ sends[t].main = config.max_challenge_attempts
               /\ sends[t].main = Max(config.requested, 1)

\* A call configured with the largest count that was mitigated on every attempt.
C4_Witness ==
    \E t \in Tasks :
        /\ pc[t] = "done"
        /\ result[t] = "Mitigation"
        /\ plan[t].should_retry
        /\ config.requested = MaxCfgAttempts
        /\ sends[t].main = MaxCfgAttempts
        /\ ret[t].kind = "Mitigation"

HandledAsSuccess(t) ==
    \/ result[t] = "NoChallenge"
    \/ result[t] = "Submission" /\ subStatus[t].status < 500

\* C6: once the outcome of a response has been fanned out, the host's
\* failure_streak is exactly one above its value when the response arrived if
\* the response is a failure (rate-limit and bot-management responses
\* included) and success_streak is 0; for a success, success_streak is exactly
\* one above and failure_streak is 0.
C6_StreakStepsByOne ==
    \A t \in Tasks :
        (pc[t] \in {"rec_lock", "mit_wait", "done"} /\ "state" \in rec[t])
            => IF HandledAsSuccess(t)
               THEN /\ stateMgr.success_streak = before[t].success_streak + 1
                    /\ stateMgr.failure_streak = 0
               ELSE /\ stateMgr.failure_streak = before[t].failure_streak + 1
                    /\ stateMgr.success_streak = 0

\* ---------------------------------------------------------------------- C7
\* C7: every return that ends a challenge (solved submission, failed
\* submission execution, mitigation, unsupported, pipeline failure) comes
\* after a Challenge or Error event of that attempt, and every iteration after
\* the first starts after a Retry event.
C7_EventForEveryOutcome ==
    \A t \in Tasks :
        /\ ( /\ pc[t] = "done"
             /\ \/ ret[t].kind \in {"ChallengeExecution", "Mitigation", "Unsupported", "Pipeline"}
                \/ ret[t].kind = "Ok" /\ result[t] = "Submission" )
              => (SeqRange(events[t]) \cap {"Challenge", "Error"}) # {}
        /\ (attempt[t] > 1 /\ pc[t] \in {"prepare", "client", "delay_sleep", "send"})
              => (Len(events[t]) > 0 /\ events[t][1] = "Retry")

\* ---------------------------------------------------------------------- C8
\* C8: after the caller cancelled a request at a suspension point the coarse
\* lock is not held by the cancelled task and no feedback component has
\* recorded an outcome for the attempt that was aborted.
C8_CancelLeavesNoOutcome ==
    \A t \in Tasks :
        pc[t] = "cancelled" => (innerLock # t /\ rec[t] = {})

\* ---------------------------------------------------------------------- C9
RECURSIVE IssuedBy(_)
\* State-manager updates issued by the tasks of S.
IssuedBy(S) ==
    IF S = {} THEN 0
    ELSE LET t == CHOOSE x \in S : TRUE
         IN  issued[t] + IssuedBy(S \ {t})

C10_OneClientPerKey ==
    /\ \A k \in ProxyKeys : built[k] <= 1
    /\ \A t \in Tasks :
          pc[t] \in {"delay_sleep", "send", "body_read"}
              => (client[t] # 0 /\ client[t] = clients[proxy[t]])

\* Two requests in flight that asked the pool for the same key.
C10_Witness ==
    /\ pc["t1"] = "delay_sleep"
    /\ pc["t2"] = "delay_sleep"
    /\ proxy["t1"] = proxy["t2"]
    /\ client["t1"] # 0
    /\ client["t1"] = client["t2"]

\* --------------------------------------------------------------------- C11
\* The last call was next_proxy and it returned a proxy.
PxReturned == pxLast.op = "next" /\ pxLast.proxy # 0

\* The last call was a report_failure that brought the count to a multiple of
\* the failure threshold.
PxHitThreshold ==
    /\ pxLast.op = "fail"
    /\ pxCfg.failure_threshold > 0
    /\ (pxLast.failures + 1) % pxCfg.failure_threshold = 0

\* C11 as stated: a report_failure that reaches the threshold bans the proxy
\* until now + ban_time, and next_proxy never returns a proxy before the expiry
\* of the last ban imposed on it.
C11_BannedUntilExpiry ==
    /\ PxHitThreshold =>
          pxEntries[pxLast.proxy].banned_until = pxLast.at + pxCfg.ban_time
    /\ PxReturned => pxImposed[pxLast.proxy] <= pxLast.at

\* C11 amended: a report_failure that reaches the threshold bans the proxy
\* until now + ban_time; next_proxy returns a proxy before the expiry of the
\* last ban imposed on it only if every proxy of the pool is banned at the call
\* (force-unban) or the ban was cleared before by report_success or by an
\* earlier force-unban.
C11_BanCycle ==
    /\ PxHitThreshold =>
          pxEntries[pxLast.proxy].banned_until = pxLast.at + pxCfg.ban_time
    /\ (PxReturned /\ pxImposed[pxLast.proxy] > pxLast.at) =>
          /\ pxLifted[pxLast.proxy]
          /\ pxLast.bans[pxLast.proxy] > pxLast.at =>
                \A j \in 1..Len(pxLast.bans) : pxLast.bans[j] > pxLast.at

\* next_proxy selects a proxy again after its ban expired, while the other
\* proxy is still banned and is passed over.
C11_Witness ==
    /\ PxReturned
    /\ pxLast.bans[pxLast.proxy] # NoBan
    /\ pxLast.bans[pxLast.proxy] <= pxLast.at
    /\ ~pxLifted[pxLast.proxy]
    /\ \E j \in 1..Len(pxLast.bans) : pxLast.bans[j] > pxLast.at

\* --------------------------------------------------------------------- C12
\* C12: on a non-empty pool next_proxy returns a proxy; the proxy it returns
\* carries an unexpired ban only when every proxy does, it is then the first
\* of those with the earliest expiry, and its ban is cleared by the call.
C12_NextProxyChoice ==
    pxLast.op = "next" /\ Len(pxLast.bans) > 0 =>
        /\ pxLast.proxy \in 1..Len(pxLast.bans)
        /\ pxLast.bans[pxLast.proxy] > pxLast.at =>
              /\ \A j \in 1..Len(pxLast.bans) :
                    /\ pxLast.bans[j] > pxLast.at
                    /\ pxLast.bans[pxLast.proxy] <= pxLast.bans[j]
                    /\ pxLast.bans[pxLast.proxy] = pxLast.bans[j] => pxLast.proxy <= j
              /\ pxEntries[pxLast.proxy].banned_until = NoBan

\* Every proxy was banned, with different expiries, and next_proxy returned
\* the one whose ban ends first.
C12_Witness ==
    /\ PxReturned
    /\ Len(pxLast.bans) = 2
    /\ \A j \in 1..2 : pxLast.bans[j] > pxLast.at
    /\ pxLast.bans[1] # pxLast.bans[2]
    /\ pxEntries[pxLast.proxy].banned_until = NoBan

\* --------------------------------------------------------------------- C13
\* C13: for every failure threshold, report_failure completes, raises the
\* failure count by one and bans the proxy exactly when the new count is a
\* multiple of the threshold; report_success clears the ban and leaves the
\* failure count alone.
C13_ReportCounts ==
    /\ ~pxPanicked
    /\ pxLast.op = "fail" =>
          /\ pxEntries[pxLast.proxy].failures = pxLast.failures + 1
          /\ IF pxCfg.failure_threshold > 0
                /\ (pxLast.failures + 1) % pxCfg.failure_threshold = 0
             THEN pxEntries[pxLast.proxy].banned_until = pxLast.at + pxCfg.ban_time
             ELSE pxEntries[pxLast.proxy].banned_until = pxLast.bans[pxLast.proxy]
    /\ pxLast.op = "success" =>
          /\ pxEntries[pxLast.proxy].banned_until = NoBan
          /\ pxEntries[pxLast.proxy].failures = pxLast.failures

\* ---------------------------------------------------------------- detector
\* The Server header is present and begins, case-insensitively, with
\* "cloudflare".
CloudflarePrefixed(server) ==
    /\ server.present
    /\ Len(server.bytes) >= Len(Cloudflare)
    /\ ToAsciiLowercase(SubSeq(server.bytes, 1, Len(Cloudflare))) = Cloudflare

\* C14: a response whose Server header is not cloudflare-prefixed or whose
\* status is not 403, 429 or 503 gets no detection from detect(), whatever its
\* body, the learned statistics and the adaptive patterns, and the detection
\* history is left as it was.
C14_GateRejects ==
    ( /\ dtLast.op = "detect"
      /\ ~CloudflarePrefixed(dtResp.server) \/ dtResp.status \notin {403, 429, 503} )
    => /\ dtLast.detection = NoDetection
       /\ dtHistory = dtLast.history

\* A 200 response served by cloudflare whose body matches every rate-limit
\* regex and every regex of an adaptive pattern registered for its host, shown
\* to a detector that learned one success of the rate-limit pattern.
C14_Witness ==
    /\ dtLast.op = "detect"
    /\ dtResp.server.bytes = Cloudflare
    /\ dtResp.status = 200
    /\ dtResp.body.known[<<"cf_rate_limit">>] = 3
    /\ dtResp.body.raw = 1..MaxRaw
    /\ dtStats[<<"cf_rate_limit">>].successes = 1
    /\ Len(dtAdaptive[ResponseDomain(dtResp)]) = 1
    /\ dtLast.detection = NoDetection

\* The patterns detect() evaluates for the response under test, in evaluation
\* order: the catalog, then the adaptive patterns of the response's domain.
C15_Evaluated == KnownPatterns \o dtAdaptive[ResponseDomain(dtResp)]

C15_Confidence(i) == EvaluatePattern(C15_Evaluated[i], dtResp.body, dtStats)

\* The evaluated patterns that matched and reached the threshold 0.5.
C15_Passing == { i \in 1..Len(C15_Evaluated) : C15_Confidence(i) >= One \div 2 }

\* C15: a detection returned by detect() has a confidence within [0.5, 1.0]
\* that is the maximum over the patterns that matched and passed the
\* threshold, and it is the first evaluated pattern reaching that maximum.
C15_BestFirst ==
    (dtLast.op = "detect" /\ dtLast.detection.found)
    => /\ dtLast.detection.confidence >= One \div 2
       /\ dtLast.detection.confidence <= One
       /\ \E i \in C15_Passing :
             /\ dtLast.detection.pattern_id = C15_Evaluated[i].id
             /\ dtLast.detection.confidence = C15_Confidence(i)
             /\ \A j \in C15_Passing :
                   /\ C15_Confidence(j) <= C15_Confidence(i)
                   /\ C15_Confidence(j) = C15_Confidence(i) => i <= j

\* Two patterns pass with the same, maximal confidence and the one evaluated
\* first is returned.
C15_Witness ==
    /\ dtLast.op = "detect"
    /\ dtLast.detection.found
    /\ \E i, j \in C15_Passing :
          /\ i < j
          /\ C15_Confidence(i) = C15_Confidence(j)
          /\ \A k \in C15_Passing : C15_Confidence(k) <= C15_Confidence(i)
          /\ dtLast.detection.pattern_id = C15_Evaluated[i].id
          /\ C15_Evaluated[i].id # C15_Evaluated[j].id

\* ------------------------------------------------- invalid answer feedback
\* request() returned the executor's InvalidAnswer to the caller.
InvalidAnswerReturned(t) ==
    ret[t].kind = "ChallengeExecution" /\ subStatus[t].err = "InvalidAnswer"

\* Confidence of the pattern detected for the response of t when the
\* pattern's statistics are st.
C16_Confidence(t, st) ==
    EvaluatePattern(KnownPattern(PatternId(resp[t].sig)), SigBody(resp[t].sig),
                    [ id \in KnownIds |-> st ])

\* C16 as stated: once the form POST was answered with 400 and request()
\* returned InvalidAnswer, the task applied exactly one pattern update and the
\* pattern's confidence for that response is, from then on, never higher than
\* it was before the update.
C16_NeverHigherAgain ==
    \A t \in Tasks :
        InvalidAnswerReturned(t)
        => /\ before[t].pattern_updates = 1
           /\ C16_Confidence(t, adaptive.stats[PatternId(resp[t].sig)])
                <= C16_Confidence(t, before[t].pattern_stats)

\* C16, amended: once request() returned InvalidAnswer the task applied
\* exactly one pattern update, a failure; as long as no other outcome of that
\* pattern has been learned since, the pattern's confidence for that response
\* is not higher than it was before the update.
C16_LowerUntilNextOutcome ==
    \A t \in Tasks :
        InvalidAnswerReturned(t)
        => LET now == adaptive.stats[PatternId(resp[t].sig)]
               was == before[t].pattern_stats
           IN  /\ before[t].pattern_updates = 1
               /\ now.attempts >= was.attempts + 1
               /\ now.attempts = was.attempts + 1
                  => /\ now.successes = was.successes
                     /\ SuccessRate(now) <= SuccessRate(was)
                     /\ C16_Confidence(t, now) <= C16_Confidence(t, was)

\* A task got InvalidAnswer for a pattern that had one success on record: the
\* success rate fell from 1 to one half.
C16_Witness ==
    \E t \in Tasks :
        /\ InvalidAnswerReturned(t)
        /\ before[t].pattern_stats = [ attempts |-> 1, successes |-> 1 ]
        /\ adaptive.stats[PatternId(resp[t].sig)] = [ attempts |-> 2, successes |-> 1 ]

\* ------------------------------------------------ captcha without provider
\* Responses the detector accepts whose page asks for a captcha: the
\* captcha/managed orchestration script or the Turnstile widget.
CaptchaVariant(r) ==
    Detect(r) # "None" /\ r.sig \in {"v2_captcha", "managed_captcha", "turnstile"}

\* The catalog scores the body of every signature as the kind the request
\* loop dispatches it to.
SignaturesScoredAsDispatched ==
    \A sig \in Signatures \ {"none"} :
        BestFrom(KnownPatterns, 1, SigBody(sig), 0, [ id \in KnownIds |-> NoStats ],
                 NoDetection).challenge_type = PatternType(sig)

\* C17: with no captcha provider configured, the pipeline result for a captcha
\* variant is Unsupported (missing captcha_provider), never Submission and
\* never Failed.
C17_CaptchaNeedsProvider ==
    \A t \in Tasks :
        (/\ pc[t] = "act"
         /\ CaptchaVariant(resp[t])
         /\ ~config.captcha_provider)
        => result[t] = "Unsupported"

\* ------------------------------------------------- unsupported and failed
\* C18: once the pipeline result of a request is Unsupported or Failed, the
\* request makes no further dispatch, enters no sleep, changes no proxy and
\* starts no new attempt; when it returns, it returns the Unsupported
\* respectively the Pipeline error.
C18_ReturnsWithoutRetry ==
    [][ \A t \in Tasks :
          result[t] \in {"Unsupported", "Failed"}
          => /\ sends'[t] = sends[t]
             /\ attempt'[t] = attempt[t]
             /\ result'[t] = result[t]
             /\ pc'[t] \notin SleepPoints
             /\ proxy'[t] = proxy[t]
             /\ forced'[t] = forced[t]
             /\ currentProxy' = currentProxy
             /\ proxyMgr' = proxyMgr
             /\ pc'[t] \in {"act", "rec_lock", "done", "cancelled"}
             /\ pc'[t] = "done"
                => ret'[t].kind = (IF result[t] = "Unsupported" THEN "Unsupported"
                                   ELSE "Pipeline") ]_vars

\* A request allowed two attempts returned the Pipeline error after its first
\* and only dispatch.
C18_Witness ==
    \E t \in Tasks :
        /\ pc[t] = "done"
        /\ result[t] = "Failed"
        /\ ret[t].kind = "Pipeline"
        /\ config.max_challenge_attempts = MaxCfgAttempts
        /\ attempt[t] < config.max_challenge_attempts
        /\ sends[t].main = 1

\* ------------------------------------------------------ outcome bookkeeping
\* C19: the consecutive-failures counter of the host's TimingState in the
\* state manager stays within [0, 5].
C19_ConsecutiveFailuresWithinFive == fbConsecutive \in 0..5

C21_BufferWithinWindow ==
    \A d \in MlDomains : Len(mlModels[d].model.attempts) <= mlWindow

\* ------------------------------------------------------ detection history
\* C22: after N detections the history holds min(N, 1000) entries, and they
\* are the N most recent detections in the order they were made.
C22_HistoryKeepsMostRecent ==
    /\ Len(dtHistory) = Min(HsHits, MaxHistory)
    /\ \A i \in 1..Len(dtHistory) : dtHistory[i].url = HsHits - Len(dtHistory) + i

\* More than 1000 detections were made: the history is full and its oldest
\* entry is no longer the first detection.
C22_Witness ==
    /\ HsHits > MaxHistory
    /\ dtLast.op = "detect"
    /\ dtLast.detection.found
    /\ Len(dtLast.history) = MaxHistory
    /\ Len(dtHistory) = MaxHistory
    /\ dtHistory[1].url > 1

\* ------------------------------------------------------------ host streaks
\* The outcome task t records on a step that updates the state manager: the
\* evaluated response in request()'s match, the executed submission's status
\* after the pattern was learned, a failure when a rate-limit or
\* bot-management handler records it during evaluation.
RecordsSuccess(t) ==
    IF pc[t] = "act" THEN result[t] = "NoChallenge"
    ELSE IF pc[t] = "sub_lock" THEN subStatus[t].status < 500
    ELSE FALSE

\* C23: recording a success leaves the host with success_streak >= 1 and
\* failure_streak = 0, recording a failure leaves it with failure_streak >= 1
\* and success_streak = 0, and at no time are both streaks non-zero.
C23_StreaksFollowOutcome ==
    /\ [](stateMgr.success_streak = 0 \/ stateMgr.failure_streak = 0)
    /\ [][ \A t \in Tasks :
             issued'[t] = issued[t] + 1
                => IF RecordsSuccess(t)
                   THEN stateMgr'.success_streak >= 1 /\ stateMgr'.failure_streak = 0
                   ELSE stateMgr'.failure_streak >= 1 /\ stateMgr'.success_streak = 0 ]_vars

\* A success was recorded for a host that was on a failure streak when the
\* response arrived, and the other way round.
C23_Witness ==
    \E t \in Tasks :
        /\ pc[t] = "rec_lock"
        /\ "state" \in rec[t]
        /\ \/ /\ HandledAsSuccess(t)
              /\ before[t].failure_streak >= 1
              /\ stateMgr.success_streak = 1
              /\ stateMgr.failure_streak = 0
           \/ /\ ~HandledAsSuccess(t)
              /\ before[t].success_streak >= 1
              /\ stateMgr.failure_streak = 1
              /\ stateMgr.success_streak = 0

\* ------------------------------------------------- access-denied handler
\* Entry i carries no ban at time now.
AdAvailable(entries, i, now) ==
    entries[i].banned_until = NoBan \/ entries[i].banned_until <= now

\* Entry cur is banned at time now once one more failure was reported on it.
AdBannedOnceReported(entries, cur, now, cfg) ==
    IF (entries[cur].failures + 1) % cfg.failure_threshold = 0
    THEN now + cfg.ban_time > now
    ELSE ~AdAvailable(entries, cur, now)

\* C24: the plan for an access-denied response has should_retry exactly when a
\* proxy pool is present and yields a replacement, and new_proxy is that
\* replacement; otherwise should_retry is false and the reason is
\* access_denied_no_proxy.  The current proxy is reported as failed before the
\* replacement is picked: its failure is counted, and when the report bans it
\* while another proxy is available, it is not the replacement.
C24_RetryExactlyWithReplacement ==
    [][ (pxNow' = pxNow /\ ~pxPanicked')
          => LET made == adLast'.plan
                 cur == adLast'.current
                 held == adPool /\ cur \in 1..Len(pxEntries)
             IN  /\ adLast'.op = "plan"
                 /\ made.should_retry <=> (adPool /\ Len(pxEntries) > 0)
                 /\ made.should_retry
                       => /\ made.reason = "access_denied"
                          /\ made.new_proxy \in 1..Len(pxEntries)
                          /\ AdAvailable(pxEntries', made.new_proxy, pxNow)
                 /\ ~made.should_retry
                       => /\ made.reason = "access_denied_no_proxy"
                          /\ made.new_proxy = 0
                 /\ held => pxEntries'[cur].failures = pxEntries[cur].failures + 1
                 /\ (held /\ made.new_proxy = cur
                          /\ AdBannedOnceReported(pxEntries, cur, pxNow, pxCfg))
                       => \A i \in 1..Len(pxEntries) :
                             i # cur => ~AdAvailable(pxEntries, i, pxNow) ]_vars

\* A plan that retries through another proxy than the current one, which the
\* report has just banned.
C24_Witness ==
    /\ adLast.op = "plan"
    /\ adPool
    /\ adLast.current \in 1..Len(pxEntries)
    /\ adLast.plan.should_retry
    /\ adLast.plan.new_proxy # adLast.current
    /\ pxEntries[adLast.current].failures = 1
    /\ pxEntries[adLast.current].banned_until > pxNow

\* ------------------------------------ fingerprints, TLS profiles, bot management
\* C25: the metadata of a bot-management plan says fingerprint_reset and
\* tls_rotated only when the fingerprint, respectively the TLS profile, of the
\* domain actually changed: the fingerprint generated next for the domain
\* differs from the one in use when the plan was made, and the domain's
\* profile after the plan differs from the one before it.
C25_MetadataReportsChange ==
    [][ LET d == evLast'.domain
        IN  /\ (evLast'.op = "generate" /\ fpUsed[d].resetFrom # 0)
                  => fpUsed'[d].fp # fpUsed[d].resetFrom
            /\ (evLast'.op = "plan" /\ evLast'.tls_rotated /\ tlsState[d].present)
                  => tlsProfiles[tlsState'[d].profile_index]
                        # tlsProfiles[tlsState[d].profile_index] ]_vars

\* C27: whatever the rotation interval, the first current_profile call after a
\* rotate_profile call returns another profile than the last current_profile
\* call before it did.
C27_RotationChangesProfile ==
    [][ LET d == evLast'.domain
        IN  (evLast'.op = "current" /\ tlsSeen[d].called /\ tlsSeen[d].rotations = 1)
               => tlsProfiles[tlsSeen'[d].index] # tlsProfiles[tlsSeen[d].index] ]_vars

\* --------------------------------------------- anti-detection cooldown
\* C26: once a response with a status of 500 or more was recorded for a host,
\* every request prepared afterwards is sent no earlier than the cooldown-until
\* instant of that recording; recording a status below 500 resets the failure
\* streak (and a status of 500 or more leaves it at 1 or more).
C26_SentAfterCooldown ==
    /\ \A r \in CdRequests :
          cdReqs[r].phase \in {"sent", "done"} => cdReqs[r].sent_at >= cdReqs[r].owed
    /\ cdLast.op = "record"
          => IF cdLast.status < 500
             THEN cdState.failure_streak = 0
             ELSE cdState.failure_streak >= 1

\* A request prepared while the cooldown of an earlier failure was running,
\* held back by the delay hint and sent at the very instant the cooldown ended.
C26_Witness ==
    \E r \in CdRequests :
        /\ cdReqs[r].phase \in {"sent", "done"}
        /\ cdReqs[r].owed > cdReqs[r].prepared_at + MaxWait
        /\ cdReqs[r].sent_at = cdReqs[r].owed
        /\ cdState.failure_streak >= 1

\* ----------------------------------------------------- adaptive timing
\* C28: the delay calculate_delay returns lies between the minimum and the
\* maximum delay of the active behaviour profile.
C28_DelayWithinProfile ==
    tmLast.op = "delay"
        => /\ tmLast.delay >= TimingProfileOf(tmLast.profile).min_delay
           /\ tmLast.delay <= TimingProfileOf(tmLast.profile).max_delay

\* A delay strictly inside the envelope, calculated after a failure was
\* recorded for the host.
C28_Witness ==
    /\ tmLast.op = "delay"
    /\ tmOutcomes >= 1
    /\ tmState.consecutive_failures >= 1
    /\ tmLast.delay > TimingProfileOf(tmLast.profile).min_delay
    /\ tmLast.delay < TimingProfileOf(tmLast.profile).max_delay

\* ------------------------------------------- access denied under concurrency
\* C29: with requests in flight at the same time, the proxy that the handling
\* of an access-denied (1020) response reports as failed is the proxy that
\* very response came through.
C29_ReportedProxyIsResponseProxy ==
    [][ \A t \in Tasks :
          (pc[t] = "eval_lock" /\ pc'[t] = "act"
              /\ Detect(resp[t]) = "AccessDenied" /\ IsAccessDenied(resp[t]))
             => \A i \in 1..Len(proxyMgr.proxies) :
                   proxyMgr'.failures[i] # proxyMgr.failures[i]
                      => proxyMgr.proxies[i] = proxy[t] ]_vars

\* --------------------------------------------- transport of the submission
\* C30: the challenge submission and the replay of the original request are
\* sent through the same transport client (same proxy, same cookie store) as
\* the request that received the challenge.
C30_SubmissionThroughRequestClient ==
    \A t \in Tasks :
        /\ sends[t].form > 0 => sends[t].form_via = sends[t].main_via
        /\ sends[t].replay > 0 => sends[t].replay_via = sends[t].main_via

\* ------------------------------------------- detector and handler agreement
\* The test by which the handler of a challenge type takes a response as its
\* own; a response failing it is refused with the handler's "not this
\* challenge" error before anything else is looked at.
HandlerAccepts(kind, r) ==
    CASE kind = "JavaScriptV1"  -> IsIuamChallenge(r)
      [] kind = "JavaScriptV2"  -> IsCaptchaChallenge(r) \/ IsJsChallenge(r)
      [] kind = "ManagedV3"     -> IsManagedChallenge(r)
      [] kind = "Turnstile"     -> IsTurnstileChallenge(r)
      [] kind = "RateLimit"     -> IsRateLimited(r)
      [] kind = "AccessDenied"  -> IsAccessDenied(r)
      [] kind = "BotManagement" -> IsBotManagement(r)
      [] OTHER                  -> FALSE

\* C31: a response the detector classified as some challenge type is taken by
\* the handler of that type as its own, whatever its status among 403, 429 and
\* 503: the pipeline never fails with the handler's "not this challenge" error.
C31_ClassifiedIsAccepted ==
    \A t \in Tasks :
        (result[t] = "Failed" /\ Detect(resp[t]) # "None")
            => HandlerAccepts(Detect(resp[t]), resp[t])

\* ------------------------------------------------------ metrics per response
\* Every call has returned or was never started.
Quiescent == \A t \in Tasks : pc[t] \in {"idle", "done"}

\* C32: with metrics enabled, once the calls made so far have returned, the
\* collector's total_requests equals the number of responses the network
\* returned: each response is counted exactly once.
C32_EachResponseCountedOnce ==
    Quiescent => metricsTotal = sends["t1"].responses + sends["t2"].responses

\* ------------------------------------------------ feedback of a submission
\* C33: when a submission was executed and returned a response, the detector's
\* pattern statistics and the host's state are fed one and the same success
\* flag: success exactly when the status of the executed response is below 500.
C33_PatternFlagIsHostFlag ==
    [][ \A t \in Tasks :
          (pc[t] = "sub_lock" /\ pc'[t] = "rec_lock")
             => \E flag \in BOOLEAN :
                   /\ flag = (subStatus[t].status < 500)
                   /\ stateMgr' = StateManagerUpdate(stateMgr, flag)
                   /\ adaptive'.stats =
                         LearnFromOutcome(adaptive.stats, PatternId(resp[t].sig), flag) ]_vars

\* ------------------------------------------------ calls of the executor
\* C34: executing a submission makes at most two transport calls, in this
\* order: the form POST, once the submission's wait has been slept; then, only
\* when the response to it is a redirect and not a 400, one replay of the
\* original request (its method, headers and body, the Referer set to the URL
\* of the submission response).  A response that is no redirect is returned
\* without a further call.
C34_FormThenAtMostOneReplay ==
    /\ Len(exCalls) <= 2
    /\ Len(exCalls) >= 1 =>
          /\ exCalls[1].kind = "send_form"
          /\ exCalls[1].slept = exSub.wait
          /\ exCalls[1].url = exSub.url
    /\ Len(exCalls) = 2 <=>
          (exFirst # NoFirstResponse /\ exFirst.is_redirect /\ exFirst.status # 400)
    /\ Len(exCalls) = 2 =>
          /\ exCalls[2].kind = "send_with_body"
          /\ exCalls[2].method = exOrig.method
          /\ exCalls[2].accept = exOrig.accept
          /\ exCalls[2].body = exOrig.body
          /\ exCalls[2].referer = exFirst.url
    /\ exRet = "first_response" => (Len(exCalls) = 1 /\ ~exFirst.is_redirect)
    /\ exRet = "follow_response" => Len(exCalls) = 2

\* A submission with a wait was posted, redirected and the original POST, body
\* and headers, replayed to the end.
C34_Witness ==
    /\ exRet = "follow_response"
    /\ Len(exCalls) = 2
    /\ exSub.wait > 0
    /\ exCalls[1].slept = exSub.wait
    /\ exOrig.method = "POST"
    /\ exCalls[2].body = "payload"
    /\ exOrig.referer # exCalls[2].referer

\* ------------------------------------------------------- redirect target
\* C39: the replay goes to the Location of the submission response when that
\* parses as an absolute URL with a host; otherwise to the Location joined onto
\* the URL of the submission response; otherwise (no Location, or the join
\* fails) to the URL of the original request.
C39_RedirectPrecedence ==
    Len(exCalls) = 2 =>
        LET location == Location(exFirst)
            absolute == UrlParse(location.ref)
            joined == UrlJoin(exFirst.url, location.ref)
        IN  exCalls[2].url =
               IF location.some /\ absolute.ok /\ HasHost(absolute.url) THEN absolute.url
               ELSE IF location.some /\ joined.ok THEN joined.url
               ELSE exOrig.url

\* The Location was the relative "done": the replay went to the sibling of the
\* submission URL, neither to the Location as it stands nor to the original URL.
C39_Witness ==
    /\ Len(exCalls) = 2
    /\ exFirst.location = LocationText(UrlRef("", NoAuthority, FALSE, <<"done">>))
    /\ exCalls[2].url = Url("https", "a.io", <<"cdn", "done">>)
    /\ exCalls[2].url # exOrig.url

\* ------------------------------------------------ fields of a submission
\* Values a list of pairs gives a key.
ValuesOf(pairs, k) == { pairs[i][2] : i \in { j \in 1..Len(pairs) : pairs[j][1] = k } }

\* C40: the form fields of the submission built from a blueprint and a payload
\* are the payload's fields together with the hidden fields, and a key both
\* carry keeps the payload's value.
C40_PayloadWins ==
    [][ (exIn.parsed /\ exSub'.built) =>
           \A k \in FieldKeys :
              exSub'.form_fields[k] \in
                 IF ValuesOf(exIn.payload, k) # {} THEN ValuesOf(exIn.payload, k)
                 ELSE IF ValuesOf(exIn.hidden_fields, k) # {}
                      THEN ValuesOf(exIn.hidden_fields, k)
                      ELSE {Absent} ]_vars

\* --------------------------------------------- fingerprint in the headers
\* C35: with the fingerprint generator and anti-detection both active, the
\* request is dispatched with the User-Agent and the Accept-Language of the
\* domain's fingerprint, except for a header that anti-detection's own
\* randomization replaced.
C35_FingerprintHeadersDispatched ==
    (hdLast.prepared /\ hdSpoofing /\ hdAnti) =>
        /\ hdLast.headers["user-agent"] = hdLast.user_agent
        /\ \/ hdLast.headers["accept-language"] = hdLast.accept_language
           \/ "accept-language" \in hdLast.drawn

\* ------------------------------------------- replacement after access denied
\* C36: when the access-denied plan names a replacement proxy and the pool
\* holds at least one proxy besides the one just reported failed, the
\* replacement is not the reported proxy, whatever the rotation strategy.
C36_ReplacementIsAnotherProxy ==
    ( /\ adLast.op = "plan"
      /\ adPool
      /\ adLast.current \in 1..Len(pxEntries)
      /\ Len(pxEntries) >= 2
      /\ adLast.plan.new_proxy # 0 )
        => adLast.plan.new_proxy # adLast.current

\* ------------------------------------------------ sequential rotation
\* C37: under the Sequential strategy a next_proxy() call that follows another
\* next_proxy() call, with nothing but the passing of time (and so the expiry
\* of bans) in between, does not return the proxy the earlier call returned
\* whenever at least two proxies are available at the later call.
C37_SequentialNeverRepeats ==
    [][ ( /\ pxCfg.rotation_strategy = "Sequential"
          /\ pxLast.op = "next"
          /\ pxLast.proxy # 0
          /\ pxNow' = pxNow
          /\ pxLast'.op = "next"
          /\ Len(PxIndicesFrom(pxEntries, pxNow, 1)) >= 2 )
            => pxLast'.proxy # pxLast.proxy ]_vars

\* ------------------------------------------------ rejection without effect
\* What a handler returns for a response that is not its own.
KindError(kind) ==
    CASE kind = "RateLimit"     -> "NotRateLimited"
      [] kind = "AccessDenied"  -> "NotAccessDenied"
      [] kind = "BotManagement" -> "NotBotManagement"

\* C38: a rate-limit, access-denied or bot-management handler that rejects a
\* response, because the response does not match the handler's signature or,
\* for bot management, because its URL has no host, returns its kind-specific
\* error and makes no call on the components handed to it: no failure is
\* recorded, no proxy reported or drawn, no fingerprint invalidated and no TLS
\* profile rotated.
C38_RejectionHasNoEffect ==
    [][ LET kind == mtLast'.kind
            r == mtLast'.response
        IN  /\ (kind # "none" /\ ~HandlerAccepts(kind, r))
                  => /\ mtLast'.ret = KindError(kind)
                     /\ mtEffects' = mtEffects
            /\ (kind = "BotManagement" /\ HandlerAccepts(kind, r) /\ ~r.host)
                  => /\ mtLast'.ret = "MissingHost"
                     /\ mtEffects' = mtEffects
            /\ mtLast'.ret \notin {"Ok", "none"} => mtEffects' = mtEffects ]_vars

\* A bot-management page without a host was rejected after earlier calls had
\* recorded a failure and invalidated a fingerprint.
C38_Witness ==
    /\ mtLast.kind = "BotManagement"
    /\ mtLast.ret = "MissingHost"
    /\ mtEffects.recorded > 0
    /\ mtEffects.invalidated > 0
    /\ mtEffects.rotated > 0

====
